---- MODULE Spec2Model ----
(***************************************************************************)
(* A model of chainer/link.py: the Link / Chain / ChainList / Sequential   *)
(* composition tree, its parameter / persistent / child registries, the    *)
(* init_scope registration protocol and the recursive bulk operations.     *)
(*                                                                         *)
(* The Python heap is modelled by two maps: links (every Link object and   *)
(* its fields) and prms (every Parameter object).  A call is one action;   *)
(* the code of a method is an operator from a world [L, P, exc] to the     *)
(* world it leaves behind, exc naming the exception it raised, if any.     *)
(***************************************************************************)
EXTENDS Integers, Sequences, FiniteSets, TLC

VARIABLES
    links,      \* node id -> the fields of that Link object
    prms,       \* parameter id -> the fields of that Parameter object
    scopes,     \* stack of active init_scope() context managers: <<node, old_flag>>
    ret,        \* the last call: its name, receiver, argument, exception and result
    hashorder,  \* iteration order of Python sets of names in this process
    calls       \* calls the program has yet to make

vars == <<links, prms, scopes, ret, hashorder, calls>>

-----------------------------------------------------------------------------
(* Bounds of the model. *)

\* Link objects the heap can hold.
MaxNodes == 4
\* Parameter objects the heap can hold.
MaxParams == 3
\* Calls a program of Spec makes.
MaxCalls == 3
\* The numbers a program computes with and an array holds are 0..ValueMod-1.
ValueMod == 3

Nodes == 1..MaxNodes
Params == 1..MaxParams

\* Attribute names used by the calls.  "zerograds" is a method of the class:
\* hasattr() finds it although it is in no instance __dict__.
InstanceNames == {"W", "x", "y"}
ClassAttrs == {"zerograds"}
Names == InstanceNames \cup ClassAttrs

\* Accelerator device ids; Host marks host (numpy) memory.
Devices == {0, 1}
Host == -1

\* Python's None where a string or an id is expected.
None == "<None>"
NoId == 0

-----------------------------------------------------------------------------
(* Values an attribute can hold. *)

Absent == <<"absent", 0>>
ParamV(p) == <<"Parameter", p>>
LinkV(n) == <<"Link", n>>
PlainV(v) == <<"value", v>>
ArrayV(dev) == <<"ndarray", dev>>

IsParam(v) == v[1] = "Parameter"
IsLink(v) == v[1] = "Link"
IsArray(v) == v[1] = "ndarray"

\* A callable layer of a Sequential that is not a Link.
LambdaV(k) == <<"lambda", k>>
FuncV(k) == <<"function", k>>

-----------------------------------------------------------------------------
(* Decimal strings: str(i) and '%d' % i. *)

Digit == <<"0", "1", "2", "3", "4", "5", "6", "7", "8", "9">>

RECURSIVE str(_)
str(i) == IF i < 10 THEN Digit[i + 1] ELSE str(i \div 10) \o Digit[(i % 10) + 1]

-----------------------------------------------------------------------------
(* Iteration order of a set of names: fixed by the process's string hashing *)
(* and the same every time an unmodified set is iterated.                   *)

Perms(S) == {f \in [1..Cardinality(S) -> S] : \A i, j \in 1..Cardinality(S) : i # j => f[i] # f[j]}

RECURSIVE FilterSeq(_, _)
FilterSeq(s, S) ==
    IF s = <<>> THEN <<>>
    ELSE (IF Head(s) \in S THEN <<Head(s)>> ELSE <<>>) \o FilterSeq(Tail(s), S)

SetOrder(S) == FilterSeq(hashorder, S)

-----------------------------------------------------------------------------
(* Objects. *)

\* A slot of the heap that holds no Link object.
NoLink ==
    [kind |-> "free", dict |-> [a \in Names |-> Absent],
     _params |-> {}, _persistent |-> {}, _cpu |-> TRUE, _device_id |-> Host,
     _within_init_scope |-> FALSE, name |-> None,
     _children |-> {}, _clist |-> <<>>, _layers |-> <<>>, _n_lambda |-> 0,
     _shares |-> NoId]

\* Link.__init__ (and Chain.__init__, ChainList.__init__, Sequential.__init__
\* without arguments): an object of class k.
NewLink(k) == [NoLink EXCEPT !.kind = k]

\* The object whose _params and _persistent set objects the fields of n refer
\* to: n itself, unless n is a shallow copy that was left sharing them.
RegOwner(w, n) == IF w.L[n]._shares = NoId THEN n ELSE w.L[n]._shares

\* add / discard on self._params and self._persistent: the sets become P and
\* S, for every object whose fields refer to the same set objects.
SetRegs(w, n, P, S) ==
    IF \A m \in Nodes : w.L[m]._shares = NoId
    THEN [w EXCEPT !.L[n]._params = P, !.L[n]._persistent = S]
    ELSE [w EXCEPT !.L = [m \in Nodes |->
                             IF w.L[m].kind # "free" /\ RegOwner(w, m) = RegOwner(w, n)
                             THEN [w.L[m] EXCEPT !._params = P, !._persistent = S]
                             ELSE w.L[m]]]

\* A slot of the heap that holds no Parameter object.
NoParam ==
    [alive |-> FALSE, name |-> None, device |-> Host, data |-> NoId, grad |-> NoId,
     state |-> [value |-> 0, gvalue |-> 0, update_rule |-> NoId, enabled |-> FALSE]]

\* variable.Parameter(initializer, shape) as object p: uninitialised (data is
\* None) when no shape is given, otherwise it owns a data array.  In state,
\* value is what the data array holds and gvalue what the gradient array
\* holds; update_rule is the holder whose rule object this one refers to,
\* and enabled the flag of the rule object made for this holder.
NewParam(p, initialized) ==
    [NoParam EXCEPT !.alive = TRUE, !.data = IF initialized THEN p ELSE NoId]

\* The heap a call starts from; res is the object a call returns.
World == [L |-> links, P |-> prms, exc |-> "none", res |-> NoId, log |-> <<>>]

Raise(w, e) == [w EXCEPT !.exc = e]

\* A call whose objects do not fit the bounded heap, or whose outcome the
\* model does not represent, is not taken.
Representable(w) == w.exc \notin {"HeapBound", "Unmodelled"}

FreeNodes(w) == {n \in Nodes : w.L[n].kind = "free"}
FreeParams(w) == {p \in Params : ~w.P[p].alive}
Min(S) == CHOOSE m \in S : \A k \in S : m <= k

IsChain(w, n) == w.L[n].kind = "Chain"
IsChainList(w, n) == w.L[n].kind \in {"ChainList", "Sequential"}
IsSequential(w, n) == w.L[n].kind = "Sequential"

\* hasattr(self, name)
hasattr(w, n, name) == w.L[n].dict[name] # Absent \/ name \in ClassAttrs

\* name in self.__dict__
indict(w, n, name) == w.L[n].dict[name] # Absent

-----------------------------------------------------------------------------
(* Parameter: the interface of chainer.variable.Parameter the module uses. *)

Parameter_to_gpu(w, p, device) == [w EXCEPT !.P[p].device = device]

Parameter_to_cpu(w, p) == [w EXCEPT !.P[p].device = Host]

\* param.grad = array, as backpropagation leaves it: a gradient array of its own.
Parameter_set_grad(w, p) == [w EXCEPT !.P[p].grad = p]

\* param.data[...] = v: the array is written, for every holder that refers
\* to it.
Parameter_set_data(w, p, v) ==
    [w EXCEPT !.P = [h \in Params |->
                        IF w.P[h].alive /\ w.P[h].data = w.P[p].data
                        THEN [w.P[h] EXCEPT !.state.value = v] ELSE w.P[h]]]

\* dst.copydata(src), both initialized: the data array of dst gets what the
\* data array of src holds; no gradient is touched.
Parameter_copydata(w, dst, src) ==
    IF w.P[dst].data = NoId \/ w.P[src].data = NoId THEN Raise(w, "Unmodelled")
    ELSE Parameter_set_data(w, dst, w.P[src].state.value)

\* dst.addgrad(src): the gradient of src is added to the gradient of dst, which
\* gets a gradient array if it had none; nothing happens when src has none.
Parameter_addgrad(w, dst, src) ==
    IF w.P[src].grad = NoId THEN w
    ELSE IF w.P[dst].grad = NoId
    THEN [w EXCEPT !.P[dst].grad = dst, !.P[dst].state.gvalue = w.P[src].state.gvalue]
    ELSE [w EXCEPT !.P[dst].state.gvalue = (@ + w.P[src].state.gvalue) % ValueMod]

\* param.update_rule = UpdateRule(), as an optimizer's setup leaves it.
Parameter_set_update_rule(w, p, enabled) ==
    [w EXCEPT !.P[p].state.update_rule = p, !.P[p].state.enabled = enabled]

\* param.initialize(shape): the parameter gets an array of its own.
Parameter_initialize(w, p) == [w EXCEPT !.P[p].data = p]

-----------------------------------------------------------------------------
(* class Link *)

\* Link.within_init_scope
within_init_scope(w, n) == w.L[n]._within_init_scope

\* Link.init_scope, up to its yield: the flag is raised.
init_scope_enter(w, n) == [w EXCEPT !.L[n]._within_init_scope = TRUE]

\* Mutant of init_scope_exit: the flag is cleared instead of restored.
init_scope_exit_clears(w, n, old_flag) == [w EXCEPT !.L[n]._within_init_scope = FALSE]

\* Link.init_scope, its finally clause: the flag saved on entry is put back.
init_scope_exit(w, n, old_flag) == [w EXCEPT !.L[n]._within_init_scope = old_flag]

\* object.__setattr__
object___setattr__(w, n, name, value) == [w EXCEPT !.L[n].dict[name] = value]

\* object.__delattr__: an AttributeError unless the instance holds the name.
object___delattr__(w, n, name) ==
    IF indict(w, n, name) THEN [w EXCEPT !.L[n].dict[name] = Absent]
    ELSE Raise(w, "AttributeError")

\* Mutant of Link.__setattr__: a Parameter is registered whether or not the
\* object is inside init_scope.
Link___setattr___unscoped(w, n, name, value) ==
    IF IsParam(value)
    THEN LET p == value[2]
             w1 == [w EXCEPT !.P[p].name = name]
             w2 == IF ~w1.L[n]._cpu
                   THEN Parameter_to_gpu(w1, p, w1.L[n]._device_id)
                   ELSE w1
             w3 == SetRegs(w2, n, w2.L[n]._params \cup {name},
                           w2.L[n]._persistent \ {name})
         IN  object___setattr__(w3, n, name, value)
    ELSE object___setattr__(w, n, name, value)

\* Link.__setattr__
Link___setattr__(w, n, name, value) ==
    IF within_init_scope(w, n) /\ IsParam(value)
    THEN LET p == value[2]
             w1 == [w EXCEPT !.P[p].name = name]
             w2 == IF ~w1.L[n]._cpu
                   THEN Parameter_to_gpu(w1, p, w1.L[n]._device_id)
                   ELSE w1
             w3 == SetRegs(w2, n, w2.L[n]._params \cup {name},
                           w2.L[n]._persistent \ {name})
         IN  object___setattr__(w3, n, name, value)
    ELSE object___setattr__(w, n, name, value)

\* Link.__delattr__
Link___delattr__(w, n, name) ==
    LET w1 == SetRegs(w, n, w.L[n]._params \ {name}, w.L[n]._persistent \ {name})
    IN  object___delattr__(w1, n, name)

\* Mutant of Chain.__setattr__: an existing attribute is not checked for.
Chain___setattr___overwrites(w, n, name, value) ==
    IF within_init_scope(w, n) /\ IsLink(value)
    THEN LET w1 == [w EXCEPT !.L[value[2]].name = name,
                             !.L[n]._children = @ \cup {name}]
         IN  Link___setattr__(w1, n, name, value)
    ELSE Link___setattr__(w, n, name, value)

\* Chain.__setattr__
Chain___setattr__(w, n, name, value) ==
    IF within_init_scope(w, n) /\ IsLink(value)
    THEN IF hasattr(w, n, name)
         THEN Raise(w, "AttributeError")
         ELSE LET w1 == [w EXCEPT !.L[value[2]].name = name,
                                  !.L[n]._children = @ \cup {name}]
              IN  Link___setattr__(w1, n, name, value)
    ELSE Link___setattr__(w, n, name, value)

\* Chain.__delattr__
Chain___delattr__(w, n, name) ==
    Link___delattr__([w EXCEPT !.L[n]._children = @ \ {name}], n, name)

\* setattr(self, name, value): the __setattr__ of the object's class.
setattr(w, n, name, value) ==
    IF IsChain(w, n) THEN Chain___setattr__(w, n, name, value)
    ELSE Link___setattr__(w, n, name, value)

\* del self.name: the __delattr__ of the object's class.
delattr(w, n, name) ==
    IF IsChain(w, n) THEN Chain___delattr__(w, n, name)
    ELSE Link___delattr__(w, n, name)

\* Link.add_param; p is the Parameter object it constructs.
Link_add_param(w, n, name, initialized, p) ==
    IF indict(w, n, name) THEN Raise(w, "AttributeError")
    ELSE IF p = NoId THEN Raise(w, "HeapBound")
    ELSE LET w1 == [w EXCEPT !.P[p] = NewParam(p, initialized)]
             old_flag == within_init_scope(w1, n)
             w2 == setattr(init_scope_enter(w1, n), n, name, ParamV(p))
         IN  init_scope_exit(w2, n, old_flag)

\* Link.add_persistent
Link_add_persistent(w, n, name, value) ==
    IF indict(w, n, name) THEN Raise(w, "AttributeError")
    ELSE [SetRegs(w, n, w.L[n]._params \ {name}, w.L[n]._persistent \cup {name})
            EXCEPT !.L[n].dict[name] = value]

\* Mutant of Link.register_persistent: the name stays in _params.
Link_register_persistent_keeps(w, n, name) ==
    IF ~hasattr(w, n, name) THEN Raise(w, "AttributeError")
    ELSE SetRegs(w, n, w.L[n]._params, w.L[n]._persistent \cup {name})

\* Link.register_persistent
Link_register_persistent(w, n, name) ==
    IF ~hasattr(w, n, name) THEN Raise(w, "AttributeError")
    ELSE SetRegs(w, n, w.L[n]._params \ {name}, w.L[n]._persistent \cup {name})

\* Chain.add_link
Chain_add_link(w, n, name, link) ==
    IF indict(w, n, name) THEN Raise(w, "AttributeError")
    ELSE IF ~IsLink(link) THEN Raise(w, "TypeError")
    ELSE LET old_flag == within_init_scope(w, n)
             w1 == setattr(init_scope_enter(w, n), n, name, link)
         IN  init_scope_exit(w1, n, old_flag)

-----------------------------------------------------------------------------
(* Python lists: 0-based indices, negative indices counted from the end. *)

\* The list s without its element at 0-based index i.
ListDel(s, i) == SubSeq(s, 1, i) \o SubSeq(s, i + 2, Len(s))

\* list.insert(i, x): the index is clamped into the list.
ListInsert(s, i, x) ==
    LET j == IF i < 0 THEN (IF i + Len(s) < 0 THEN 0 ELSE i + Len(s))
             ELSE (IF i > Len(s) THEN Len(s) ELSE i)
    IN  SubSeq(s, 1, j) \o <<x>> \o SubSeq(s, j + 1, Len(s))

\* The 0-based position s[i] names, or -1 for an IndexError.
ListPos(s, i) ==
    IF i >= 0 /\ i < Len(s) THEN i
    ELSE IF i < 0 /\ i + Len(s) >= 0 THEN i + Len(s)
    ELSE -1

\* A slice bound: <<>> is None, <<k>> an integer; dflt stands for None.
SliceBound(s, b, dflt) ==
    IF b = <<>> THEN dflt
    ELSE IF b[1] < 0 THEN (IF b[1] + Len(s) < 0 THEN 0 ELSE b[1] + Len(s))
    ELSE (IF b[1] > Len(s) THEN Len(s) ELSE b[1])

\* s[start:end]
ListSlice(s, start, end) ==
    SubSeq(s, SliceBound(s, start, 0) + 1, SliceBound(s, end, Len(s)))

\* list.index(x): the first 0-based position of x in s, or -1 (a ValueError).
ListIndex(s, x) ==
    IF \E k \in 1..Len(s) : s[k] = x
    THEN (CHOOSE k \in 1..Len(s) : s[k] = x /\ \A j \in 1..(k - 1) : s[j] # x) - 1
    ELSE -1

\* The elements of a sequence.
Range(s) == {s[i] : i \in 1..Len(s)}

\* callable(layer): a Link of a model defines __call__, functions are callable.
callable(v) == v[1] \in {"Link", "lambda", "function"}

\* hasattr(layer, '__name__') and layer.__name__ == '<lambda>'
is_lambda(v) == v[1] = "lambda"

-----------------------------------------------------------------------------
(* class ChainList *)

\* ChainList.add_link: a Link gets its position as name; a function object
\* takes the attribute too; any other value has no attribute to set.
ChainList_add_link(w, n, link) ==
    IF IsLink(link)
    THEN [w EXCEPT !.L[link[2]].name = str(Len(w.L[n]._clist)),
                   !.L[n]._clist = Append(@, link)]
    ELSE IF callable(link)
    THEN [w EXCEPT !.L[n]._clist = Append(@, link)]
    ELSE Raise(w, "AttributeError")

\* ChainList.append
ChainList_append(w, n, link) == ChainList_add_link(w, n, link)

-----------------------------------------------------------------------------
(* class Sequential *)

\* Sequential.__len__
Sequential___len__(w, n) == Len(w.L[n]._layers)

\* Sequential.insert
Sequential_insert(w, n, i, layer) ==
    IF ~callable(layer) THEN Raise(w, "ValueError")
    ELSE LET w1 == [w EXCEPT !.L[n]._layers = ListInsert(@, i, layer)]
         IN  IF IsLink(layer) THEN ChainList_add_link(w1, n, layer)
             ELSE IF is_lambda(layer)
             THEN [w1 EXCEPT !.L[n]._n_lambda = @ + 1]
             ELSE w1

\* Sequential.append
Sequential_append(w, n, layer) ==
    Sequential_insert(w, n, Sequential___len__(w, n), layer)

\* Sequential.__delitem__
Sequential___delitem__(w, n, i) ==
    LET layers == w.L[n]._layers
        k == ListPos(layers, i)
    IN  IF k = -1 THEN Raise(w, "IndexError")
        ELSE LET layer == layers[k + 1]
                 w1 == [w EXCEPT !.L[n]._layers = ListDel(@, k)]
                 c == ListIndex(w1.L[n]._clist, layer)
             IN  IF IsLink(layer)
                 THEN (IF c = -1 THEN w1
                       ELSE [w1 EXCEPT !.L[n]._clist = ListDel(@, c)])
                 ELSE IF is_lambda(layer)
                 THEN [w1 EXCEPT !.L[n]._n_lambda = @ - 1]
                 ELSE w1

\* Sequential.__setitem__
Sequential___setitem__(w, n, i, layer) ==
    IF i >= Sequential___len__(w, n) THEN Raise(w, "ValueError")
    ELSE IF ~callable(layer) THEN Raise(w, "ValueError")
    ELSE IF ListPos(w.L[n]._layers, i) = -1 THEN Raise(w, "IndexError")
    ELSE IF w.L[n]._layers[ListPos(w.L[n]._layers, i) + 1] = layer THEN w
    ELSE Sequential_insert(Sequential___delitem__(w, n, i), n, i, layer)

\* Sequential.index
Sequential_index(w, n, layer, start, end) ==
    LET k == ListIndex(ListSlice(w.L[n]._layers, start, end), layer)
    IN  IF k = -1 THEN Raise(w, "ValueError") ELSE [w EXCEPT !.res = k]

\* Sequential.__contains__
Sequential___contains__(w, n, item) ==
    \E k \in 1..Len(w.L[n]._layers) : w.L[n]._layers[k] = item

\* Sequential.remove
Sequential_remove(w, n, layer) ==
    IF Sequential___contains__(w, n, layer)
    THEN Sequential___delitem__(w, n, Sequential_index(w, n, layer, <<>>, <<>>).res)
    ELSE Raise(w, "ValueError")

\* Sequential.pop
Sequential_pop(w, n, i) ==
    IF ListPos(w.L[n]._layers, i) = -1 THEN Raise(w, "IndexError")
    ELSE LET layer == w.L[n]._layers[ListPos(w.L[n]._layers, i) + 1]
         IN  [Sequential___delitem__(w, n, i) EXCEPT !.res = layer]

\* The loop of Sequential.clear: enumerate() walks the child list while the
\* body deletes from it; i is the iterator's position.
RECURSIVE clear_children(_, _)
clear_children(children, i) ==
    IF i >= Len(children) THEN children
    ELSE clear_children(ListDel(children, i), i + 1)

\* Sequential.clear
Sequential_clear(w, n) ==
    [w EXCEPT !.L[n]._clist = clear_children(@, 0), !.L[n]._layers = <<>>]

\* The loop "for layer in sequential: self.append(layer)" of extend, __iadd__
\* and __add__, over the layers src had when the loop started.
RECURSIVE append_all(_, _, _)
append_all(w, n, src) ==
    IF src = <<>> \/ w.exc # "none" THEN w
    ELSE append_all(Sequential_append(w, n, Head(src)), n, Tail(src))

-----------------------------------------------------------------------------
(* copy: Link.copy, Chain.copy, ChainList.copy, Sequential.copy.  A copy    *)
(* takes the lowest free slots of the heap for the objects it creates.      *)

\* Depth of nested calls after which Python raises RecursionError; no
\* acyclic hierarchy of the bounded heap is that deep.
RecursionLimit == MaxNodes + 1

\* The loop of Link.copy over ret._params, on the copy m.
RECURSIVE copy_params(_, _, _)
copy_params(w, m, names) ==
    IF names = <<>> \/ w.exc # "none" THEN w
    ELSE LET v == w.L[m].dict[Head(names)]
         IN  IF IsParam(v)
             THEN IF FreeParams(w) = {} THEN Raise(w, "HeapBound")
                  ELSE LET q == Min(FreeParams(w))
                       IN  copy_params(
                               [w EXCEPT !.P[q] = [w.P[v[2]] EXCEPT !.grad = NoId, !.state.gvalue = 0],
                                         !.L[m].dict[Head(names)] = ParamV(q)],
                               m, Tail(names))
             ELSE IF IsLink(v) THEN Raise(w, "Unmodelled")
             ELSE IF v = Absent THEN Raise(w, "KeyError")
             ELSE Raise(w, "AttributeError")

\* Mutant of Link.copy: the copy keeps the set objects of the original.
Link_copy_shares(w, n) ==
    IF FreeNodes(w) = {} THEN Raise(w, "HeapBound")
    ELSE LET m == Min(FreeNodes(w))
             w1 == [w EXCEPT !.L[m] = [w.L[n] EXCEPT !.name = None,
                                                     !._shares = RegOwner(w, n)],
                             !.res = m]
         IN  copy_params(w1, m, SetOrder(w1.L[m]._params))

\* Link.copy: copy.copy(self), then sets of its own, no name, and a copy of
\* every parameter.
Link_copy(w, n) ==
    IF FreeNodes(w) = {} THEN Raise(w, "HeapBound")
    ELSE LET m == Min(FreeNodes(w))
             w1 == [w EXCEPT !.L[m] = [w.L[n] EXCEPT !.name = None, !._shares = NoId],
                             !.res = m]
         IN  copy_params(w1, m, SetOrder(w1.L[m]._params))

RECURSIVE copy(_, _, _)

\* The loop of Chain.copy over ret._children, on the copy m.
RECURSIVE Chain_copy_children(_, _, _, _)
Chain_copy_children(w, m, names, fuel) ==
    IF names = <<>> \/ w.exc # "none" THEN w
    ELSE LET name == Head(names)
             v == w.L[m].dict[name]
         IN  IF v = Absent THEN Raise(w, "KeyError")
             ELSE IF ~IsLink(v) THEN Raise(w, "AttributeError")
             ELSE LET c == copy(w, v[2], fuel - 1)
                  IN  IF c.exc # "none" THEN c
                      ELSE Chain_copy_children(
                               [c EXCEPT !.L[c.res].name = name,
                                         !.L[m].dict[name] = LinkV(c.res)],
                               m, Tail(names), fuel)

\* Chain.copy
Chain_copy(w, n, fuel) ==
    LET r == Link_copy(w, n)
    IN  IF r.exc # "none" THEN r
        ELSE [Chain_copy_children(r, r.res, SetOrder(r.L[r.res]._children), fuel)
                EXCEPT !.res = r.res]

\* The loop of ChainList.copy over the children of the copy m, from 0-based i.
RECURSIVE ChainList_copy_children(_, _, _, _)
ChainList_copy_children(w, m, i, fuel) ==
    IF i >= Len(w.L[m]._clist) \/ w.exc # "none" THEN w
    ELSE LET child == w.L[m]._clist[i + 1]
         IN  IF ~IsLink(child) THEN Raise(w, "AttributeError")
             ELSE LET c == copy(w, child[2], fuel - 1)
                  IN  IF c.exc # "none" THEN c
                      ELSE ChainList_copy_children(
                               [c EXCEPT !.L[c.res].name = str(i),
                                         !.L[m]._clist[i + 1] = LinkV(c.res)],
                               m, i + 1, fuel)

\* ChainList.copy
ChainList_copy(w, n, fuel) ==
    LET r == Link_copy(w, n)
    IN  IF r.exc # "none" THEN r
        ELSE [ChainList_copy_children(r, r.res, 0, fuel) EXCEPT !.res = r.res]

\* The loop of Sequential.copy over the layers of self, appending to ret = m.
RECURSIVE Sequential_copy_layers(_, _, _, _)
Sequential_copy_layers(w, m, layers, fuel) ==
    IF layers = <<>> \/ w.exc # "none" THEN w
    ELSE LET layer == Head(layers)
         IN  IF IsLink(layer)
             THEN LET c == copy(w, layer[2], fuel - 1)
                  IN  IF c.exc # "none" THEN c
                      ELSE Sequential_copy_layers(
                               Sequential_append(c, m, LinkV(c.res)),
                               m, Tail(layers), fuel)
             ELSE Sequential_copy_layers(
                      Sequential_append(w, m, layer), m, Tail(layers), fuel)

\* Sequential.copy
Sequential_copy(w, n, fuel) ==
    IF FreeNodes(w) = {} THEN Raise(w, "HeapBound")
    ELSE LET m == Min(FreeNodes(w))
             w1 == [w EXCEPT !.L[m] = [NewLink("Sequential") EXCEPT
                                          !._n_lambda = w.L[n]._n_lambda]]
         IN  [Sequential_copy_layers(w1, m, w.L[n]._layers, fuel) EXCEPT !.res = m]

\* self.copy(): the copy method of the object's class.
copy(w, n, fuel) ==
    IF fuel = 0 THEN Raise(w, "RecursionError")
    ELSE IF IsSequential(w, n) THEN Sequential_copy(w, n, fuel)
    ELSE IF IsChainList(w, n) THEN ChainList_copy(w, n, fuel)
    ELSE IF IsChain(w, n) THEN Chain_copy(w, n, fuel)
    ELSE Link_copy(w, n)

-----------------------------------------------------------------------------
(* to_cpu / to_gpu.  An accelerator runtime is present: check_cuda_available *)
(* passes.  cur is the current device of the calling context.               *)

\* The device current when no other is selected.
DefaultDevice == Min(Devices)

\* The loop of Link.to_cpu over self._params.
RECURSIVE to_cpu_params(_, _, _)
to_cpu_params(w, n, names) ==
    IF names = <<>> \/ w.exc # "none" THEN w
    ELSE LET v == w.L[n].dict[Head(names)]
         IN  IF IsParam(v)
             THEN to_cpu_params(Parameter_to_cpu(w, v[2]), n, Tail(names))
             ELSE IF IsLink(v) THEN Raise(w, "Unmodelled")
             ELSE IF v = Absent THEN Raise(w, "KeyError")
             ELSE Raise(w, "AttributeError")

\* The loop of Link.to_cpu over self._persistent: device arrays are fetched.
RECURSIVE to_cpu_persistent(_, _, _)
to_cpu_persistent(w, n, names) ==
    IF names = <<>> \/ w.exc # "none" THEN w
    ELSE LET v == w.L[n].dict[Head(names)]
         IN  IF v = Absent THEN Raise(w, "KeyError")
             ELSE IF IsArray(v) /\ v[2] # Host
             THEN to_cpu_persistent(
                      [w EXCEPT !.L[n].dict[Head(names)] = ArrayV(Host)], n, Tail(names))
             ELSE to_cpu_persistent(w, n, Tail(names))

\* Mutant of Link.to_cpu: the device state is set before the values are moved.
Link_to_cpu_state_first(w, n) ==
    IF w.L[n]._cpu THEN w
    ELSE LET w0 == [w EXCEPT !.L[n]._cpu = TRUE, !.L[n]._device_id = Host]
             w1 == to_cpu_params(w0, n, SetOrder(w0.L[n]._params))
         IN  to_cpu_persistent(w1, n, SetOrder(w1.L[n]._persistent))

\* Link.to_cpu
Link_to_cpu(w, n) ==
    IF w.L[n]._cpu THEN w
    ELSE LET w1 == to_cpu_params(w, n, SetOrder(w.L[n]._params))
             w2 == to_cpu_persistent(w1, n, SetOrder(w1.L[n]._persistent))
         IN  IF w2.exc # "none" THEN w2
             ELSE [w2 EXCEPT !.L[n]._cpu = TRUE, !.L[n]._device_id = Host]

\* The loop of Link.to_gpu over self._params, dev being the current device.
RECURSIVE to_gpu_params(_, _, _, _)
to_gpu_params(w, n, names, dev) ==
    IF names = <<>> \/ w.exc # "none" THEN w
    ELSE LET v == w.L[n].dict[Head(names)]
         IN  IF IsParam(v)
             THEN to_gpu_params(Parameter_to_gpu(w, v[2], dev), n, Tail(names), dev)
             ELSE IF IsLink(v) THEN Raise(w, "Unmodelled")
             ELSE IF v = Absent THEN Raise(w, "KeyError")
             ELSE Raise(w, "AttributeError")

\* The loop of Link.to_gpu over self._persistent: host arrays are sent.
RECURSIVE to_gpu_persistent(_, _, _, _)
to_gpu_persistent(w, n, names, dev) ==
    IF names = <<>> \/ w.exc # "none" THEN w
    ELSE LET v == w.L[n].dict[Head(names)]
         IN  IF v = Absent THEN Raise(w, "KeyError")
             ELSE IF IsArray(v) /\ v[2] = Host
             THEN to_gpu_persistent(
                      [w EXCEPT !.L[n].dict[Head(names)] = ArrayV(dev)], n, Tail(names), dev)
             ELSE to_gpu_persistent(w, n, Tail(names), dev)

\* cuda._get_device(device): the device current inside the with block;
\* device is <<>> for None and <<d>> for device d.
get_device(device, cur) == IF device = <<>> THEN cur ELSE device[1]

\* Mutant of Link.to_gpu: an object that is on a device already is rejected.
Link_to_gpu_rejects(w, n, device, cur) ==
    IF ~w.L[n]._cpu THEN Raise(w, "RuntimeError")
    ELSE LET dev == get_device(device, cur)
             w1 == to_gpu_params(w, n, SetOrder(w.L[n]._params), dev)
             w2 == to_gpu_persistent(w1, n, SetOrder(w1.L[n]._persistent), dev)
         IN  IF w2.exc # "none" THEN w2
             ELSE [w2 EXCEPT !.L[n]._device_id = dev, !.L[n]._cpu = FALSE]

\* Link.to_gpu
Link_to_gpu(w, n, device, cur) ==
    IF ~w.L[n]._cpu THEN w
    ELSE LET dev == get_device(device, cur)
             w1 == to_gpu_params(w, n, SetOrder(w.L[n]._params), dev)
             w2 == to_gpu_persistent(w1, n, SetOrder(w1.L[n]._persistent), dev)
         IN  IF w2.exc # "none" THEN w2
             ELSE [w2 EXCEPT !.L[n]._device_id = dev, !.L[n]._cpu = FALSE]

RECURSIVE to_cpu(_, _, _)
RECURSIVE to_gpu(_, _, _, _, _)

\* The loops of Chain.to_cpu and ChainList.to_cpu over the children, given as
\* the values the child set names or the child list holds.
RECURSIVE children_to_cpu(_, _, _)
children_to_cpu(w, vals, fuel) ==
    IF vals = <<>> \/ w.exc # "none" THEN w
    ELSE LET v == Head(vals)
         IN  IF IsLink(v) THEN children_to_cpu(to_cpu(w, v[2], fuel - 1), Tail(vals), fuel)
             ELSE IF IsParam(v) THEN children_to_cpu(Parameter_to_cpu(w, v[2]), Tail(vals), fuel)
             ELSE IF v = Absent THEN Raise(w, "KeyError")
             ELSE Raise(w, "AttributeError")

\* The loops of Chain.to_gpu and ChainList.to_gpu over the children.
RECURSIVE children_to_gpu(_, _, _, _)
children_to_gpu(w, vals, dev, fuel) ==
    IF vals = <<>> \/ w.exc # "none" THEN w
    ELSE LET v == Head(vals)
         IN  IF IsLink(v)
             THEN children_to_gpu(to_gpu(w, v[2], <<>>, dev, fuel - 1), Tail(vals), dev, fuel)
             ELSE IF IsParam(v)
             THEN children_to_gpu(Parameter_to_gpu(w, v[2], dev), Tail(vals), dev, fuel)
             ELSE IF v = Absent THEN Raise(w, "KeyError")
             ELSE Raise(w, "AttributeError")

\* The values of the attributes named by a Chain's child set, in set order.
Chain_child_values(w, n) ==
    [i \in 1..Cardinality(w.L[n]._children) |->
        w.L[n].dict[SetOrder(w.L[n]._children)[i]]]

\* Chain.to_cpu
Chain_to_cpu(w, n, fuel) ==
    LET w1 == Link_to_cpu(w, n)
    IN  children_to_cpu(w1, Chain_child_values(w1, n), fuel)

\* Chain.to_gpu
Chain_to_gpu(w, n, device, cur, fuel) ==
    LET dev == get_device(device, cur)
        w1 == Link_to_gpu(w, n, <<>>, dev)
    IN  children_to_gpu(w1, Chain_child_values(w1, n), dev, fuel)

\* ChainList.to_cpu
ChainList_to_cpu(w, n, fuel) ==
    LET w1 == Link_to_cpu(w, n)
    IN  children_to_cpu(w1, w1.L[n]._clist, fuel)

\* ChainList.to_gpu
ChainList_to_gpu(w, n, device, cur, fuel) ==
    LET dev == get_device(device, cur)
        w1 == Link_to_gpu(w, n, <<>>, dev)
    IN  children_to_gpu(w1, w1.L[n]._clist, dev, fuel)

\* self.to_cpu(): the method of the object's class.
to_cpu(w, n, fuel) ==
    IF fuel = 0 THEN Raise(w, "RecursionError")
    ELSE IF IsChainList(w, n) THEN ChainList_to_cpu(w, n, fuel)
    ELSE IF IsChain(w, n) THEN Chain_to_cpu(w, n, fuel)
    ELSE Link_to_cpu(w, n)

\* self.to_gpu(device): the method of the object's class.
to_gpu(w, n, device, cur, fuel) ==
    IF fuel = 0 THEN Raise(w, "RecursionError")
    ELSE IF IsChainList(w, n) THEN ChainList_to_gpu(w, n, device, cur, fuel)
    ELSE IF IsChain(w, n) THEN Chain_to_gpu(w, n, device, cur, fuel)
    ELSE Link_to_gpu(w, n, device, cur)

-----------------------------------------------------------------------------
(* Constructors with arguments. *)

\* The loop of Link.__init__ over **params, given as <<name, has_shape>>
\* pairs: each is registered by add_param.
RECURSIVE Link___init___params(_, _, _)
Link___init___params(w, n, params) ==
    IF params = <<>> \/ w.exc # "none" THEN w
    ELSE LET p == IF FreeParams(w) = {} THEN NoId ELSE Min(FreeParams(w))
         IN  Link___init___params(
                 Link_add_param(w, n, Head(params)[1], Head(params)[2], p),
                 n, Tail(params))

\* Link.__init__: Link(**params) as object n.
Link___init__(w, n, params) ==
    Link___init___params([w EXCEPT !.L[n] = NewLink("Link")], n, params)

\* The loop of Chain.__init__ over **links, given as <<name, link>> pairs.
RECURSIVE Chain___init___links(_, _, _)
Chain___init___links(w, n, lks) ==
    IF lks = <<>> \/ w.exc # "none" THEN w
    ELSE Chain___init___links(
             Chain_add_link(w, n, Head(lks)[1], Head(lks)[2]), n, Tail(lks))

\* Chain.__init__: Chain(**links) as object n.
Chain___init__(w, n, lks) ==
    Chain___init___links([w EXCEPT !.L[n] = NewLink("Chain")], n, lks)

\* The loop of ChainList.__init__ over *links.
RECURSIVE ChainList___init___links(_, _, _)
ChainList___init___links(w, n, lks) ==
    IF lks = <<>> \/ w.exc # "none" THEN w
    ELSE ChainList___init___links(ChainList_add_link(w, n, Head(lks)), n, Tail(lks))

\* ChainList.__init__: ChainList(*links) as object n.
ChainList___init__(w, n, lks) ==
    ChainList___init___links([w EXCEPT !.L[n] = NewLink("ChainList")], n, lks)

\* Sequential.__init__: Sequential(*layers) as object n.
Sequential___init__(w, n, layers) ==
    append_all([w EXCEPT !.L[n] = NewLink("Sequential")], n, layers)

\* The heap before any object is made.
EmptyWorld ==
    [L |-> [n \in Nodes |-> NoLink], P |-> [p \in Params |-> NoParam],
     exc |-> "none", res |-> NoId, log |-> <<>>]

-----------------------------------------------------------------------------
(* Traversals.  A generator is modelled by what it yields, in order, and the *)
(* exception that ends it, if any.                                           *)

Gen(out) == [out |-> out, exc |-> "none"]
GenRaise(e) == [out |-> <<>>, exc |-> e]

\* The generator g, then (if g ends normally) the generator h.
Then(g, h) == IF g.exc # "none" THEN g ELSE [out |-> g.out \o h.out, exc |-> h.exc]

\* param.data is not None, for the attribute value v.
HasData(w, v) == w.P[v[2]].data # NoId

\* The loop of Link.params over the names of _params, in set order.
RECURSIVE Link_params_loop(_, _, _, _)
Link_params_loop(w, n, names, include_uninit) ==
    IF names = <<>> THEN Gen(<<>>)
    ELSE LET v == w.L[n].dict[Head(names)]
             rest == Link_params_loop(w, n, Tail(names), include_uninit)
         IN  IF v = Absent THEN GenRaise("KeyError")
             ELSE IF include_uninit THEN Then(Gen(<<v>>), rest)
             ELSE IF ~IsParam(v) THEN GenRaise("AttributeError")
             ELSE IF HasData(w, v) THEN Then(Gen(<<v>>), rest)
             ELSE rest

\* Link.params
Link_params(w, n, include_uninit) ==
    Link_params_loop(w, n, SetOrder(w.L[n]._params), include_uninit)

\* The loop of Link.namedparams.
RECURSIVE Link_namedparams_loop(_, _, _, _)
Link_namedparams_loop(w, n, names, include_uninit) ==
    IF names = <<>> THEN Gen(<<>>)
    ELSE LET v == w.L[n].dict[Head(names)]
             rest == Link_namedparams_loop(w, n, Tail(names), include_uninit)
             item == <<"/" \o Head(names), v>>
         IN  IF v = Absent THEN GenRaise("KeyError")
             ELSE IF include_uninit THEN Then(Gen(<<item>>), rest)
             ELSE IF ~IsParam(v) THEN GenRaise("AttributeError")
             ELSE IF HasData(w, v) THEN Then(Gen(<<item>>), rest)
             ELSE rest

\* Link.namedparams
Link_namedparams(w, n, include_uninit) ==
    Link_namedparams_loop(w, n, SetOrder(w.L[n]._params), include_uninit)

\* The (path, x) pairs of g with prefix put before every path.
Prefixed(prefix, g) ==
    [out |-> [i \in 1..Len(g.out) |-> <<prefix \o g.out[i][1], g.out[i][2]>>],
     exc |-> g.exc]

RECURSIVE params(_, _, _, _)
RECURSIVE namedparams(_, _, _, _)

\* A method called on the attribute value v: only a Link has it.
OnLink(v, g) ==
    IF v = Absent THEN GenRaise("KeyError")
    ELSE IF ~IsLink(v) THEN GenRaise("AttributeError")
    ELSE g

\* The loop of Chain.params over the names of _children, in set order.
RECURSIVE Chain_params_loop(_, _, _, _, _)
Chain_params_loop(w, n, names, include_uninit, fuel) ==
    IF names = <<>> THEN Gen(<<>>)
    ELSE LET v == w.L[n].dict[Head(names)]
         IN  Then(OnLink(v, params(w, v[2], include_uninit, fuel - 1)),
                  Chain_params_loop(w, n, Tail(names), include_uninit, fuel))

\* Mutant of Chain.params: the children's parameters come before the own ones.
Chain_params_children_first(w, n, include_uninit, fuel) ==
    Then(Chain_params_loop(w, n, SetOrder(w.L[n]._children), include_uninit, fuel),
         Link_params(w, n, include_uninit))

\* Chain.params
Chain_params(w, n, include_uninit, fuel) ==
    Then(Link_params(w, n, include_uninit),
         Chain_params_loop(w, n, SetOrder(w.L[n]._children), include_uninit, fuel))

\* The loop of Chain.namedparams.
RECURSIVE Chain_namedparams_loop(_, _, _, _, _)
Chain_namedparams_loop(w, n, names, include_uninit, fuel) ==
    IF names = <<>> THEN Gen(<<>>)
    ELSE LET v == w.L[n].dict[Head(names)]
             prefix == "/" \o Head(names)
         IN  Then(OnLink(v, Prefixed(prefix, namedparams(w, v[2], include_uninit, fuel - 1))),
                  Chain_namedparams_loop(w, n, Tail(names), include_uninit, fuel))

\* Mutant of Chain.namedparams: the children are not visited.
Chain_namedparams_own(w, n, include_uninit, fuel) ==
    Link_namedparams(w, n, include_uninit)

\* Chain.namedparams
Chain_namedparams(w, n, include_uninit, fuel) ==
    Then(Link_namedparams(w, n, include_uninit),
         Chain_namedparams_loop(w, n, SetOrder(w.L[n]._children), include_uninit, fuel))

\* The loop of ChainList.params over _children, idx the 0-based position.
RECURSIVE ChainList_params_loop(_, _, _, _, _)
ChainList_params_loop(w, n, idx, include_uninit, fuel) ==
    IF idx >= Len(w.L[n]._clist) THEN Gen(<<>>)
    ELSE LET v == w.L[n]._clist[idx + 1]
         IN  Then(OnLink(v, params(w, v[2], include_uninit, fuel - 1)),
                  ChainList_params_loop(w, n, idx + 1, include_uninit, fuel))

\* ChainList.params
ChainList_params(w, n, include_uninit, fuel) ==
    Then(Link_params(w, n, include_uninit),
         ChainList_params_loop(w, n, 0, include_uninit, fuel))

\* The loop of ChainList.namedparams.
RECURSIVE ChainList_namedparams_loop(_, _, _, _, _)
ChainList_namedparams_loop(w, n, idx, include_uninit, fuel) ==
    IF idx >= Len(w.L[n]._clist) THEN Gen(<<>>)
    ELSE LET v == w.L[n]._clist[idx + 1]
             prefix == "/" \o str(idx)
         IN  Then(OnLink(v, Prefixed(prefix, namedparams(w, v[2], include_uninit, fuel - 1))),
                  ChainList_namedparams_loop(w, n, idx + 1, include_uninit, fuel))

\* ChainList.namedparams
ChainList_namedparams(w, n, include_uninit, fuel) ==
    Then(Link_namedparams(w, n, include_uninit),
         ChainList_namedparams_loop(w, n, 0, include_uninit, fuel))

\* n.params(include_uninit), by the class of n; the interpreter's recursion
\* limit ends a traversal that does not end by itself.
params(w, n, include_uninit, fuel) ==
    IF fuel = 0 THEN GenRaise("RecursionError")
    ELSE IF IsChain(w, n) THEN Chain_params(w, n, include_uninit, fuel)
    ELSE IF IsChainList(w, n) THEN ChainList_params(w, n, include_uninit, fuel)
    ELSE Link_params(w, n, include_uninit)

\* n.namedparams(include_uninit), by the class of n.
namedparams(w, n, include_uninit, fuel) ==
    IF fuel = 0 THEN GenRaise("RecursionError")
    ELSE IF IsChain(w, n) THEN Chain_namedparams(w, n, include_uninit, fuel)
    ELSE IF IsChainList(w, n) THEN ChainList_namedparams(w, n, include_uninit, fuel)
    ELSE Link_namedparams(w, n, include_uninit)

\* Link.links
Link_links(w, n, skipself) == IF ~skipself THEN Gen(<<LinkV(n)>>) ELSE Gen(<<>>)

\* Link.namedlinks
Link_namedlinks(w, n, skipself) ==
    IF ~skipself THEN Gen(<< <<"/", LinkV(n)>> >>) ELSE Gen(<<>>)

\* Link.children
Link_children(w, n) == Gen(<<>>)

RECURSIVE links_(_, _, _, _)
RECURSIVE namedlinks(_, _, _, _)

\* The loop of Chain.links over the names of _children.
RECURSIVE Chain_links_loop(_, _, _, _)
Chain_links_loop(w, n, names, fuel) ==
    IF names = <<>> THEN Gen(<<>>)
    ELSE LET v == w.L[n].dict[Head(names)]
         IN  Then(OnLink(v, links_(w, v[2], FALSE, fuel - 1)),
                  Chain_links_loop(w, n, Tail(names), fuel))

\* Chain.links
Chain_links(w, n, skipself, fuel) ==
    Then(Link_links(w, n, skipself),
         Chain_links_loop(w, n, SetOrder(w.L[n]._children), fuel))

\* The loop of Chain.namedlinks: the child is yielded, then its own links.
RECURSIVE Chain_namedlinks_loop(_, _, _, _)
Chain_namedlinks_loop(w, n, names, fuel) ==
    IF names = <<>> THEN Gen(<<>>)
    ELSE LET child == w.L[n].dict[Head(names)]
             prefix == "/" \o Head(names)
         IN  IF child = Absent THEN GenRaise("KeyError")
             ELSE Then(Gen(<< <<prefix, child>> >>),
                  Then(OnLink(child, Prefixed(prefix, namedlinks(w, child[2], TRUE, fuel - 1))),
                       Chain_namedlinks_loop(w, n, Tail(names), fuel)))

\* Chain.namedlinks
Chain_namedlinks(w, n, skipself, fuel) ==
    Then(Link_namedlinks(w, n, skipself),
         Chain_namedlinks_loop(w, n, SetOrder(w.L[n]._children), fuel))

\* The loop of Chain.children.
RECURSIVE Chain_children_loop(_, _, _)
Chain_children_loop(w, n, names) ==
    IF names = <<>> THEN Gen(<<>>)
    ELSE IF w.L[n].dict[Head(names)] = Absent THEN GenRaise("KeyError")
    ELSE Then(Gen(<<w.L[n].dict[Head(names)]>>), Chain_children_loop(w, n, Tail(names)))

\* Chain.children
Chain_children(w, n) == Chain_children_loop(w, n, SetOrder(w.L[n]._children))

\* The loop of ChainList.links over _children.
RECURSIVE ChainList_links_loop(_, _, _, _)
ChainList_links_loop(w, n, idx, fuel) ==
    IF idx >= Len(w.L[n]._clist) THEN Gen(<<>>)
    ELSE LET child == w.L[n]._clist[idx + 1]
         IN  Then(OnLink(child, links_(w, child[2], FALSE, fuel - 1)),
                  ChainList_links_loop(w, n, idx + 1, fuel))

\* ChainList.links
ChainList_links(w, n, skipself, fuel) ==
    Then(Link_links(w, n, skipself), ChainList_links_loop(w, n, 0, fuel))

\* The loop of ChainList.namedlinks.
RECURSIVE ChainList_namedlinks_loop(_, _, _, _)
ChainList_namedlinks_loop(w, n, idx, fuel) ==
    IF idx >= Len(w.L[n]._clist) THEN Gen(<<>>)
    ELSE LET child == w.L[n]._clist[idx + 1]
             prefix == "/" \o str(idx)
         IN  Then(Gen(<< <<prefix, child>> >>),
             Then(OnLink(child, Prefixed(prefix, namedlinks(w, child[2], TRUE, fuel - 1))),
                  ChainList_namedlinks_loop(w, n, idx + 1, fuel)))

\* ChainList.namedlinks
ChainList_namedlinks(w, n, skipself, fuel) ==
    Then(Link_namedlinks(w, n, skipself), ChainList_namedlinks_loop(w, n, 0, fuel))

\* ChainList.children
ChainList_children(w, n) == Gen(w.L[n]._clist)

\* n.links(skipself), by the class of n.
links_(w, n, skipself, fuel) ==
    IF fuel = 0 THEN GenRaise("RecursionError")
    ELSE IF IsChain(w, n) THEN Chain_links(w, n, skipself, fuel)
    ELSE IF IsChainList(w, n) THEN ChainList_links(w, n, skipself, fuel)
    ELSE Link_links(w, n, skipself)

\* n.namedlinks(skipself), by the class of n.
namedlinks(w, n, skipself, fuel) ==
    IF fuel = 0 THEN GenRaise("RecursionError")
    ELSE IF IsChain(w, n) THEN Chain_namedlinks(w, n, skipself, fuel)
    ELSE IF IsChainList(w, n) THEN ChainList_namedlinks(w, n, skipself, fuel)
    ELSE Link_namedlinks(w, n, skipself)

\* n.children(), by the class of n.
children(w, n) ==
    IF IsChain(w, n) THEN Chain_children(w, n)
    ELSE IF IsChainList(w, n) THEN ChainList_children(w, n)
    ELSE Link_children(w, n)

-----------------------------------------------------------------------------
(* class Sequential: concatenation, repetition and pickling.  The operators *)
(* leave their result in res.                                               *)

\* copy.copy(v): a function object is copied as itself; a plain Link gives a
\* new object whose attributes are the attributes of the original, the
\* Parameter objects and the two name sets included.
copy_copy(w, v) ==
    IF ~IsLink(v) THEN [w EXCEPT !.res = v]
    ELSE IF w.L[v[2]].kind # "Link" THEN Raise(w, "Unmodelled")
    ELSE IF FreeNodes(w) = {} THEN Raise(w, "HeapBound")
    ELSE LET m == Min(FreeNodes(w))
         IN  [w EXCEPT !.L[m] = [w.L[v[2]] EXCEPT !._shares = RegOwner(w, v[2])],
                       !.res = LinkV(m)]

\* The attributes of a deep copy m, one name at a time: a Parameter is copied
\* with arrays of its own, once however many names hold it.
RECURSIVE deepcopy_attrs(_, _, _, _, _)
deepcopy_attrs(w, n, m, names, done) ==
    IF names = <<>> \/ w.exc # "none" THEN w
    ELSE LET name == Head(names)
             v == w.L[n].dict[name]
             same == {d \in Range(done) : w.L[n].dict[d] = v}
         IN  IF IsLink(v) THEN Raise(w, "Unmodelled")
             ELSE IF ~IsParam(v)
             THEN deepcopy_attrs(w, n, m, Tail(names), Append(done, name))
             ELSE IF same # {}
             THEN deepcopy_attrs(
                      [w EXCEPT !.L[m].dict[name] = w.L[m].dict[CHOOSE d \in same : TRUE]],
                      n, m, Tail(names), Append(done, name))
             ELSE IF FreeParams(w) = {} THEN Raise(w, "HeapBound")
             ELSE LET q == Min(FreeParams(w))
                      old == w.P[v[2]]
                  IN  deepcopy_attrs(
                          [w EXCEPT !.P[q] = [old EXCEPT
                                                 !.data = IF @ = NoId THEN NoId ELSE q,
                                                 !.grad = IF @ = NoId THEN NoId ELSE q,
                                                 !.state.update_rule = IF @ = NoId THEN NoId ELSE q,
                                                 !.state.enabled = IF old.state.update_rule = NoId THEN FALSE
                                                             ELSE w.P[old.state.update_rule].state.enabled],
                                    !.L[m].dict[name] = ParamV(q)],
                          n, m, Tail(names), Append(done, name))

\* copy.deepcopy(v) of a plain Link: a new object with copies of all it holds.
copy_deepcopy(w, v) ==
    IF w.L[v[2]].kind # "Link" THEN Raise(w, "Unmodelled")
    ELSE IF FreeNodes(w) = {} THEN Raise(w, "HeapBound")
    ELSE LET m == Min(FreeNodes(w))
             w1 == [w EXCEPT !.L[m] = [w.L[v[2]] EXCEPT !._shares = NoId]]
         IN  [deepcopy_attrs(w1, v[2], m, SetOrder(Names), <<>>) EXCEPT !.res = LinkV(m)]

\* for param in layer.params(include_uninit=False): param.initialize(shape)
RECURSIVE initialize_all(_, _)
initialize_all(w, ps) ==
    IF ps = <<>> THEN w
    ELSE initialize_all(Parameter_initialize(w, Head(ps)[2]), Tail(ps))

\* The Link branch of the repetition loops: a deep copy with every
\* initialized parameter initialized anew, left in res.
repeat_link(w, v) ==
    LET w1 == copy_deepcopy(w, v)
        g == params(w1, w1.res[2], FALSE, RecursionLimit)
    IN  IF w1.exc # "none" THEN w1
        ELSE IF g.exc # "none" THEN Raise(w1, g.exc)
        ELSE initialize_all(w1, g.out)

\* Sequential(): a new empty Sequential, left in res.
Sequential_new(w) ==
    IF FreeNodes(w) = {} THEN Raise(w, "HeapBound")
    ELSE LET m == Min(FreeNodes(w))
         IN  [Sequential___init__(w, m, <<>>) EXCEPT !.res = m]

\* Sequential.__add__
Sequential___add__(w, n, other) ==
    IF IsLink(other) /\ IsSequential(w, other[2])
    THEN LET w1 == Sequential_new(w)
             seq == w1.res
             w2 == append_all(w1, seq, w1.L[n]._layers)
             w3 == append_all(w2, seq, w2.L[other[2]]._layers)
         IN  IF w1.exc # "none" THEN w1 ELSE [w3 EXCEPT !.res = seq]
    ELSE IF callable(other)
    THEN [Sequential_append(w, n, other) EXCEPT !.res = n]
    ELSE Raise(w, "ValueError")

\* Sequential.__radd__
Sequential___radd__(w, n, other) ==
    IF callable(other)
    THEN LET w1 == Sequential_new(w)
             w2 == Sequential_append(w1, w1.res, other)
         IN  IF w1.exc # "none" THEN w1
             ELSE IF w2.exc # "none" THEN w2
             ELSE Sequential___add__(w2, w1.res, LinkV(n))
    ELSE Raise(w, "ValueError")

\* Sequential.extend: the loop takes the layers from the iterator of the
\* argument while it appends, so it never ends on the object itself unless
\* that is empty; a Link that is no list of links cannot be iterated.
Sequential_extend(w, n, sequential) ==
    IF ~IsLink(sequential) THEN Raise(w, "TypeError")
    ELSE IF IsSequential(w, sequential[2])
    THEN (IF sequential[2] = n /\ w.L[n]._layers # <<>> THEN Raise(w, "NonTermination")
          ELSE append_all(w, n, w.L[sequential[2]]._layers))
    ELSE IF IsChainList(w, sequential[2])
    THEN append_all(w, n, w.L[sequential[2]]._clist)
    ELSE Raise(w, "TypeError")

\* Sequential.__iadd__: the loop over other never ends when other is self
\* and has a layer, since every step appends one more.
Sequential___iadd__(w, n, other) ==
    IF IsLink(other) /\ IsSequential(w, other[2])
    THEN (IF other[2] = n /\ w.L[n]._layers # <<>> THEN Raise(w, "NonTermination")
          ELSE [append_all(w, n, w.L[other[2]]._layers) EXCEPT !.res = n])
    ELSE IF callable(other)
    THEN [Sequential_append(w, n, other) EXCEPT !.res = n]
    ELSE Raise(w, "ValueError")

\* One pass of the inner loop of Sequential.__mul__ over the layers of self.
RECURSIVE mul_layers(_, _, _)
mul_layers(w, seq, layers) ==
    IF layers = <<>> \/ w.exc # "none" THEN w
    ELSE LET w1 == IF IsLink(Head(layers)) THEN repeat_link(w, Head(layers))
                   ELSE copy_copy(w, Head(layers))
         IN  IF w1.exc # "none" THEN w1
             ELSE mul_layers(Sequential_append(w1, seq, w1.res), seq, Tail(layers))

\* The outer loop of Sequential.__mul__: for _ in range(times).
RECURSIVE mul_repeat(_, _, _, _)
mul_repeat(w, n, seq, times) ==
    IF times <= 0 \/ w.exc # "none" THEN w
    ELSE mul_repeat(mul_layers(w, seq, w.L[n]._layers), n, seq, times - 1)

\* Sequential.__mul__
Sequential___mul__(w, n, n_repeat) ==
    IF n_repeat <= 0 THEN Sequential_new(w)
    ELSE LET w1 == copy(w, n, RecursionLimit)
             seq == w1.res
         IN  IF w1.exc # "none" THEN w1
             ELSE [mul_repeat(w1, n, seq, n_repeat - 1) EXCEPT !.res = seq]

\* Sequential.__rmul__
Sequential___rmul__(w, n, n_repeat) == Sequential___mul__(w, n, n_repeat)

\* One pass of the inner loop of Sequential.__imul__: for i in range(n_layers).
\* layer is the local variable of that name: <<>> while it is unbound.
RECURSIVE imul_layers(_, _, _, _, _)
imul_layers(w, n, i, n_layers, layer) ==
    IF i >= n_layers \/ w.exc # "none" THEN [w EXCEPT !.res = layer]
    ELSE LET self_i == w.L[n]._layers[i + 1]
             w1 == IF IsLink(self_i) THEN repeat_link(w, self_i)
                   ELSE IF layer = <<>> THEN Raise(w, "UnboundLocalError")
                   ELSE copy_copy(w, layer[1])
         IN  IF w1.exc # "none" THEN w1
             ELSE imul_layers(Sequential_append(w1, n, w1.res), n, i + 1, n_layers,
                              <<w1.res>>)

\* The outer loop of Sequential.__imul__.
RECURSIVE imul_repeat(_, _, _, _, _)
imul_repeat(w, n, times, n_layers, layer) ==
    IF times <= 0 \/ w.exc # "none" THEN w
    ELSE LET w1 == imul_layers(w, n, 0, n_layers, layer)
         IN  IF w1.exc # "none" THEN w1
             ELSE imul_repeat(w1, n, times - 1, n_layers, w1.res)

\* Sequential.__imul__
Sequential___imul__(w, n, n_repeat) ==
    IF n_repeat <= 0 THEN [Sequential_clear(w, n) EXCEPT !.res = n]
    ELSE [imul_repeat(w, n, n_repeat - 1, Sequential___len__(w, n), <<>>)
            EXCEPT !.res = n]

\* The values a layer is called with and returns: integers below ValueMod
\* and tuples of them.
IntV(k) == <<"int", k>>
TupleV(elems) == <<"tuple", elems>>
IsTuple(x) == x[1] = "tuple"

\* layer(*args) for the functions a program passes as layers:
\*   def inc(x): return x + 1             def pair(x): return (x, x + 1)
\*   lambda a, b: a + b                   lambda a, b: (b, a)
\* with the integers taken modulo ValueMod.  A call with another number of
\* arguments, or inc / pair of a tuple, raises TypeError.
call_layer(w, layer, args) ==
    IF IsLink(layer) THEN Raise(w, "Unmodelled")
    ELSE IF layer \in {FuncV(1), FuncV(2)}
    THEN (IF Len(args) # 1 \/ IsTuple(args[1]) THEN Raise(w, "TypeError")
          ELSE IF layer = FuncV(1)
          THEN [w EXCEPT !.res = IntV((args[1][2] + 1) % ValueMod)]
          ELSE [w EXCEPT !.res = TupleV(<<args[1], IntV((args[1][2] + 1) % ValueMod)>>)])
    ELSE IF layer \in {LambdaV(1), LambdaV(2)}
    THEN (IF Len(args) # 2 THEN Raise(w, "TypeError")
          ELSE IF layer = LambdaV(2) THEN [w EXCEPT !.res = TupleV(<<args[2], args[1]>>)]
          ELSE IF IsTuple(args[1]) \/ IsTuple(args[2]) THEN Raise(w, "TypeError")
          ELSE [w EXCEPT !.res = IntV((args[1][2] + args[2][2]) % ValueMod)])
    ELSE Raise(w, "TypeError")

\* The loop of Sequential.__call__ over the layers; x is the local variable
\* of that name.
RECURSIVE call_layers(_, _, _)
call_layers(w, layers, x) ==
    IF w.exc # "none" THEN w
    ELSE IF layers = <<>> THEN [w EXCEPT !.res = x]
    ELSE LET w1 == IF IsTuple(x) THEN call_layer(w, Head(layers), x[2])
                   ELSE call_layer(w, Head(layers), <<x>>)
         IN  call_layers(w1, Tail(layers), w1.res)

\* Mutant of Sequential.__call__: the layers are applied last to first.
Sequential___call___reversed(w, n, args) ==
    call_layers(w, [i \in 1..Len(w.L[n]._layers) |->
                       w.L[n]._layers[Len(w.L[n]._layers) + 1 - i]], TupleV(args))

\* Sequential.__call__(*x): x starts as the tuple of the arguments.
Sequential___call__(w, n, args) == call_layers(w, w.L[n]._layers, TupleV(args))

\* Sequential.__reduce__: what object.__reduce__ returns is not modelled.
Sequential___reduce__(w, n) ==
    IF w.L[n]._n_lambda > 0 THEN Raise(w, "ValueError") ELSE w

-----------------------------------------------------------------------------
(* Serializer: the interface of chainer.AbstractSerializer the module uses. *)
(* A serializer saves or loads; indexing it gives the serializer of a       *)
(* sub-scope.  The world's log records every call made to a serializer.     *)

Serializer(mode) == [mode |-> mode, scope |-> <<>>]

\* serializer[key]
Serializer___getitem__(serializer, key) == [serializer EXCEPT !.scope = Append(@, key)]

\* What serializer(name, data) returns for the array (or None) of a parameter:
\* a saver returns what it was given, a loader the array it restored.
Serializer_data(serializer, p, data) ==
    IF serializer.mode = "load" /\ data = NoId THEN p ELSE data

\* What serializer(name, value) returns for a persistent value: a loader
\* returns the restored scalar, and fills an array in place.
Serializer_value(serializer, value) ==
    IF serializer.mode = "load" /\ value[1] = "value" THEN PlainV(1) ELSE value

\* The world after serializer(name, _) was called and returned out.
Logged(w, serializer, name, kind, out) ==
    [w EXCEPT !.log = Append(@, [scope |-> serializer.scope, name |-> name,
                                 kind |-> kind, out |-> out])]

-----------------------------------------------------------------------------
(* serialize *)

\* The first loop of Link.serialize, over the names of _params.
RECURSIVE Link_serialize_params(_, _, _, _)
Link_serialize_params(w, n, names, serializer) ==
    IF names = <<>> \/ w.exc # "none" THEN w
    ELSE LET name == Head(names)
             param == w.L[n].dict[name]
         IN  IF param = Absent THEN Raise(w, "KeyError")
             ELSE IF ~IsParam(param) THEN Raise(w, "AttributeError")
             ELSE LET p == param[2]
                      data == Serializer_data(serializer, p, w.P[p].data)
                      w1 == Logged(w, serializer, name, "param", data)
                      w2 == IF w1.P[p].data = NoId /\ data # NoId
                            THEN Parameter_initialize(w1, p)
                            ELSE w1
                  IN  Link_serialize_params(w2, n, Tail(names), serializer)

\* The second loop of Link.serialize, over the names of _persistent.
RECURSIVE Link_serialize_persistent(_, _, _, _)
Link_serialize_persistent(w, n, names, serializer) ==
    IF names = <<>> \/ w.exc # "none" THEN w
    ELSE LET name == Head(names)
             out == Serializer_value(serializer, w.L[n].dict[name])
             w1 == Logged(w, serializer, name, "persistent", out)
         IN  IF w.L[n].dict[name] = Absent THEN Raise(w, "KeyError")
             ELSE Link_serialize_persistent([w1 EXCEPT !.L[n].dict[name] = out],
                                            n, Tail(names), serializer)

\* Link.serialize
Link_serialize(w, n, serializer) ==
    LET w1 == Link_serialize_params(w, n, SetOrder(w.L[n]._params), serializer)
    IN  Link_serialize_persistent(w1, n, SetOrder(w1.L[n]._persistent), serializer)

RECURSIVE serialize(_, _, _, _)

\* d[name].serialize(...) on an attribute value: only a Link has the method.
SerializeChild(w, v, serializer, fuel) ==
    IF v = Absent THEN Raise(w, "KeyError")
    ELSE IF ~IsLink(v) THEN Raise(w, "AttributeError")
    ELSE serialize(w, v[2], serializer, fuel - 1)

\* The loop of Chain.serialize over the names of _children.
RECURSIVE Chain_serialize_loop(_, _, _, _, _)
Chain_serialize_loop(w, n, names, serializer, fuel) ==
    IF names = <<>> \/ w.exc # "none" THEN w
    ELSE Chain_serialize_loop(
             SerializeChild(w, w.L[n].dict[Head(names)],
                            Serializer___getitem__(serializer, Head(names)), fuel),
             n, Tail(names), serializer, fuel)

\* Chain.serialize
Chain_serialize(w, n, serializer, fuel) ==
    LET w1 == Link_serialize(w, n, serializer)
    IN  Chain_serialize_loop(w1, n, SetOrder(w1.L[n]._children), serializer, fuel)

\* The loop of ChainList.serialize over _children.
RECURSIVE ChainList_serialize_loop(_, _, _, _, _)
ChainList_serialize_loop(w, n, idx, serializer, fuel) ==
    IF idx >= Len(w.L[n]._clist) \/ w.exc # "none" THEN w
    ELSE ChainList_serialize_loop(
             SerializeChild(w, w.L[n]._clist[idx + 1],
                            Serializer___getitem__(serializer, str(idx)), fuel),
             n, idx + 1, serializer, fuel)

\* Mutant of ChainList.serialize: the children are indexed from the scope above
\* this node, not from this node's own scope.
ChainList_serialize_unscoped(w, n, serializer, fuel) ==
    ChainList_serialize_loop(Link_serialize(w, n, serializer), n, 0,
                             [serializer EXCEPT !.scope = SubSeq(@, 1, Len(@) - 1)], fuel)

\* ChainList.serialize
ChainList_serialize(w, n, serializer, fuel) ==
    ChainList_serialize_loop(Link_serialize(w, n, serializer), n, 0, serializer, fuel)

\* n.serialize(serializer), by the class of n.
serialize(w, n, serializer, fuel) ==
    IF fuel = 0 THEN Raise(w, "RecursionError")
    ELSE IF w.exc # "none" THEN w
    ELSE IF IsChain(w, n) THEN Chain_serialize(w, n, serializer, fuel)
    ELSE IF IsChainList(w, n) THEN ChainList_serialize(w, n, serializer, fuel)
    ELSE Link_serialize(w, n, serializer)

-----------------------------------------------------------------------------
(* The calls of a program, one action each.  A call leaves the heap its     *)
(* method leaves, and ret tells what was called and how it ended.           *)

Live == {n \in Nodes : links[n].kind # "free"}
LiveParams == {p \in Params : prms[p].alive}

\* The program has calls left to make; a call that does not return ends it.
Running == calls > 0 /\ ret.exc # "NonTermination"

Called(op, n, arg, w, val) ==
    /\ ret' = [op |-> op, node |-> n, arg |-> arg, exc |-> w.exc, val |-> val]
    /\ calls' = calls - 1

\* The heap after a call that ended as w.
Commit(w) == links' = w.L /\ prms' = w.P

\* with n.init_scope(): the block is entered.
EnterInitScope(n) ==
    /\ Running /\ n \in Live
    /\ scopes' = Append(scopes, <<n, within_init_scope(World, n)>>)
    /\ Commit(init_scope_enter(World, n))
    /\ Called("init_scope.enter", n, None, World, <<>>)
    /\ UNCHANGED hashorder

\* The innermost with-block is left, by reaching its end or by an exception
\* raised in its body: the finally clause runs either way.
ExitInitScope(raised) ==
    /\ Running /\ scopes # <<>>
    /\ LET top == scopes[Len(scopes)]
           w == init_scope_exit(World, top[1], top[2])
       IN  /\ Commit(w)
           /\ Called("init_scope.exit", top[1], None,
                     IF raised THEN Raise(w, "Exception") ELSE w, <<>>)
    /\ scopes' = SubSeq(scopes, 1, Len(scopes) - 1)
    /\ UNCHANGED hashorder

\* n.name = value, for an object the program holds.
SetAttr(n, name, value) ==
    /\ Running /\ n \in Live
    /\ LET w == setattr(World, n, name, value)
       IN  Commit(w) /\ Called("__setattr__", n, name, w, value)
    /\ UNCHANGED <<scopes, hashorder>>

\* n.name = Parameter(...): a new Parameter object is assigned.
SetAttrNewParam(n, name, initialized) ==
    /\ Running /\ n \in Live /\ FreeParams(World) # {}
    /\ LET p == Min(FreeParams(World))
           w == setattr([World EXCEPT !.P[p] = NewParam(p, initialized)], n, name, ParamV(p))
       IN  Commit(w) /\ Called("__setattr__", n, name, w, ParamV(p))
    /\ UNCHANGED <<scopes, hashorder>>

\* del n.name
DelAttr(n, name) ==
    /\ Running /\ n \in Live
    /\ LET w == delattr(World, n, name)
       IN  Commit(w) /\ Called("__delattr__", n, name, w, <<>>)
    /\ UNCHANGED <<scopes, hashorder>>

\* n.add_param(name, shape)
AddParam(n, name, initialized) ==
    /\ Running /\ n \in Live
    /\ LET p == IF FreeParams(World) = {} THEN NoId ELSE Min(FreeParams(World))
           w == Link_add_param(World, n, name, initialized, p)
       IN  Representable(w) /\ Commit(w) /\ Called("add_param", n, name, w, <<>>)
    /\ UNCHANGED <<scopes, hashorder>>

\* n.add_persistent(name, value)
AddPersistent(n, name, value) ==
    /\ Running /\ n \in Live
    /\ LET w == Link_add_persistent(World, n, name, value)
       IN  Commit(w) /\ Called("add_persistent", n, name, w, value)
    /\ UNCHANGED <<scopes, hashorder>>

\* n.register_persistent(name)
RegisterPersistent(n, name) ==
    /\ Running /\ n \in Live
    /\ LET w == Link_register_persistent(World, n, name)
       IN  Commit(w) /\ Called("register_persistent", n, name, w, <<>>)
    /\ UNCHANGED <<scopes, hashorder>>

\* n.add_link(name, link), n a Chain
ChainAddLink(n, name, link) ==
    /\ Running /\ n \in Live /\ IsChain(World, n)
    /\ LET w == Chain_add_link(World, n, name, link)
       IN  Commit(w) /\ Called("add_link", n, name, w, link)
    /\ UNCHANGED <<scopes, hashorder>>

\* n.copy(): a failed copy leaves only unreachable objects behind.
Copy(n) ==
    /\ Running /\ n \in Live
    /\ LET w == copy(World, n, RecursionLimit)
       IN  /\ Representable(w)
           /\ IF w.exc = "none" THEN Commit(w) ELSE UNCHANGED <<links, prms>>
           /\ Called("copy", n, None, w, w.res)
    /\ UNCHANGED <<scopes, hashorder>>

\* n.to_gpu(device)
ToGpu(n, device) ==
    /\ Running /\ n \in Live
    /\ LET w == to_gpu(World, n, device, DefaultDevice, RecursionLimit)
       IN  Representable(w) /\ Commit(w) /\ Called("to_gpu", n, device, w, <<>>)
    /\ UNCHANGED <<scopes, hashorder>>

\* n.to_cpu()
ToCpu(n) ==
    /\ Running /\ n \in Live
    /\ LET w == to_cpu(World, n, RecursionLimit)
       IN  Representable(w) /\ Commit(w) /\ Called("to_cpu", n, None, w, <<>>)
    /\ UNCHANGED <<scopes, hashorder>>

-----------------------------------------------------------------------------
(* Spec: the registration protocol on a Chain and a Link.                   *)

\* One iteration order of the names, and the set of that order and its
\* reverse, in which every two names come in both orders.
OneOrder == CHOOSE f \in Perms(Names) : TRUE
HashOrders == {OneOrder, [i \in 1..Len(OneOrder) |-> OneOrder[Len(OneOrder) + 1 - i]]}

NoCall == [op |-> "none", node |-> NoId, arg |-> None, exc |-> "none", val |-> <<>>]

\* Names and values the registration calls are made with.
RegNames == {"W", "zerograds"}
RegValues == {PlainV(0)}
RegLinks == {LinkV(2)}
RegDevices == {<<1>>}
RegInit == {TRUE}

\* The program starts with object 1 = Chain() and object 2 = Link(W=shape),
\* whose W holds a gradient.
Init ==
    /\ LET w0 == Chain___init__(Link___init__(EmptyWorld, 2, << <<"W", TRUE>> >>), 1, <<>>)
           w == Parameter_set_grad(w0, 1)
       IN  links = w.L /\ prms = w.P
    /\ scopes = <<>>
    /\ ret = NoCall
    /\ hashorder = OneOrder
    /\ calls = MaxCalls

Next ==
    \/ \E n \in Nodes : EnterInitScope(n)
    \/ \E raised \in BOOLEAN : ExitInitScope(raised)
    \/ \E n \in Nodes, name \in RegNames :
         \E value \in RegValues \cup RegLinks \cup {ParamV(p) : p \in LiveParams} :
            SetAttr(n, name, value)
    \/ \E n \in Nodes, name \in RegNames, initialized \in RegInit :
         SetAttrNewParam(n, name, initialized)
    \/ \E n \in Nodes, name \in RegNames : DelAttr(n, name)
    \/ \E n \in Nodes, name \in RegNames, initialized \in RegInit :
         AddParam(n, name, initialized)
    \/ \E n \in Nodes, name \in RegNames, value \in RegValues :
         AddPersistent(n, name, value)
    \/ \E n \in Nodes, name \in RegNames : RegisterPersistent(n, name)
    \/ \E n \in Nodes, name \in RegNames :
         \E link \in RegValues \cup {LinkV(m) : m \in Live} : ChainAddLink(n, name, link)
    \/ \E n \in Nodes : Copy(n)
    \/ \E n \in Nodes, device \in RegDevices : ToGpu(n, device)
    \/ \E n \in Nodes : ToCpu(n)

Spec == Init /\ [][Next]_vars

-----------------------------------------------------------------------------
(* Claims about the registration protocol, checked under Spec. *)

\* An init_scope of object n is active.
InScope(n) == \E i \in 1..Len(scopes) : scopes[i][1] = n

\* C1: at every Link object that exists, no name is both in parameter_names
\* (_params) and in persistent_names (_persistent).
C1_Disjoint ==
    \A n \in Live : links[n]._params \cap links[n]._persistent = {}

\* C1 witness: the first call re-registered the parameter W of object 2 as a
\* persistent value, which took it out of _params.
C1_Witness ==
    /\ calls = MaxCalls - 1
    /\ ret.op = "register_persistent" /\ ret.node = 2 /\ ret.arg = "W" /\ ret.exc = "none"
    /\ "W" \in links[2]._persistent /\ "W" \notin links[2]._params

C5_ScopeRestores ==
    [][/\ ret'.op = "init_scope.exit" =>
            LET top == scopes[Len(scopes)]
            IN  /\ links'[top[1]]._within_init_scope = top[2]
                /\ (\E i \in 1..(Len(scopes) - 1) : scopes[i][1] = top[1])
                      => links'[top[1]]._within_init_scope
       /\ ret'.op \in {"add_param", "add_link"} =>
            \A n \in Nodes :
               links'[n]._within_init_scope = links[n]._within_init_scope]_vars

\* C5 witness: an inner scope was left by an error while an outer scope of the
\* same object is open, and the flag is still True.
C5_Witness ==
    /\ ret.op = "init_scope.exit" /\ ret.exc = "Exception"
    /\ InScope(ret.node)
    /\ links[ret.node]._within_init_scope

\* C6: the flag of an object is True only while an init_scope of that object
\* is active.
C6_FlagOnlyInScope ==
    \A n \in Live : links[n]._within_init_scope => InScope(n)

\* The call registers something new under a name: add_param, add_persistent,
\* Chain.add_link, or a Link assigned to a Chain attribute inside init_scope.
IsRegistration(r, L) ==
    \/ r.op \in {"add_param", "add_persistent", "add_link"}
    \/ /\ r.op = "__setattr__" /\ IsLink(r.val)
       /\ L[r.node].kind = "Chain" /\ L[r.node]._within_init_scope

RegistryOps ==
    {"__setattr__", "__delattr__", "add_param", "add_persistent",
     "register_persistent", "add_link"}

-----------------------------------------------------------------------------
(* Traversal and serialization calls; list(...) takes all a generator yields. *)

\* n.append(link), n a ChainList
ChainListAppend(n, link) ==
    /\ Running /\ n \in Live /\ World.L[n].kind = "ChainList"
    /\ LET w == ChainList_append(World, n, link)
       IN  Commit(w) /\ Called("append", n, None, w, link)
    /\ UNCHANGED <<scopes, hashorder>>

\* list(n.params(include_uninit))
ParamsCall(n, include_uninit) ==
    /\ Running /\ n \in Live
    /\ LET g == params(World, n, include_uninit, RecursionLimit)
       IN  Called("params", n, include_uninit, g, g.out)
    /\ UNCHANGED <<links, prms, scopes, hashorder>>

\* list(n.namedparams(include_uninit))
NamedParamsCall(n, include_uninit) ==
    /\ Running /\ n \in Live
    /\ LET g == namedparams(World, n, include_uninit, RecursionLimit)
       IN  Called("namedparams", n, include_uninit, g, g.out)
    /\ UNCHANGED <<links, prms, scopes, hashorder>>

\* list(n.links(skipself))
LinksCall(n, skipself) ==
    /\ Running /\ n \in Live
    /\ LET g == links_(World, n, skipself, RecursionLimit)
       IN  Called("links", n, skipself, g, g.out)
    /\ UNCHANGED <<links, prms, scopes, hashorder>>

\* list(n.namedlinks(skipself))
NamedLinksCall(n, skipself) ==
    /\ Running /\ n \in Live
    /\ LET g == namedlinks(World, n, skipself, RecursionLimit)
       IN  Called("namedlinks", n, skipself, g, g.out)
    /\ UNCHANGED <<links, prms, scopes, hashorder>>

\* list(n.children())
ChildrenCall(n) ==
    /\ Running /\ n \in Live
    /\ LET g == children(World, n)
       IN  Called("children", n, None, g, g.out)
    /\ UNCHANGED <<links, prms, scopes, hashorder>>

\* n.serialize(serializer), with a fresh saving or loading serializer; what an
\* interrupted serialize has stored stays stored.
SerializeCall(n, mode) ==
    /\ Running /\ n \in Live
    /\ LET w == serialize(World, n, Serializer(mode), RecursionLimit)
       IN  Commit(w) /\ Called("serialize", n, mode, w, w.log)
    /\ UNCHANGED <<scopes, hashorder>>

-----------------------------------------------------------------------------
(* The list interface of Sequential, one action per call. *)

\* n.append(layer)
SeqAppend(n, layer) ==
    /\ Running /\ n \in Live /\ IsSequential(World, n)
    /\ LET w == Sequential_append(World, n, layer)
       IN  Commit(w) /\ Called("append", n, None, w, layer)
    /\ UNCHANGED <<scopes, hashorder>>

\* n.insert(i, layer)
SeqInsert(n, i, layer) ==
    /\ Running /\ n \in Live /\ IsSequential(World, n)
    /\ LET w == Sequential_insert(World, n, i, layer)
       IN  Commit(w) /\ Called("insert", n, i, w, layer)
    /\ UNCHANGED <<scopes, hashorder>>

\* n[i] = layer
SeqSetItem(n, i, layer) ==
    /\ Running /\ n \in Live /\ IsSequential(World, n)
    /\ LET w == Sequential___setitem__(World, n, i, layer)
       IN  Commit(w) /\ Called("__setitem__", n, i, w, layer)
    /\ UNCHANGED <<scopes, hashorder>>

\* del n[i]
SeqDelItem(n, i) ==
    /\ Running /\ n \in Live /\ IsSequential(World, n)
    /\ LET w == Sequential___delitem__(World, n, i)
       IN  Commit(w) /\ Called("__delitem__", n, i, w, <<>>)
    /\ UNCHANGED <<scopes, hashorder>>

\* n.remove(layer)
SeqRemove(n, layer) ==
    /\ Running /\ n \in Live /\ IsSequential(World, n)
    /\ LET w == Sequential_remove(World, n, layer)
       IN  Commit(w) /\ Called("remove", n, None, w, layer)
    /\ UNCHANGED <<scopes, hashorder>>

\* n.index(layer, start, end); start and end are <<>> when not given.
SeqIndex(n, layer, start, end) ==
    /\ Running /\ n \in Live /\ IsSequential(World, n)
    /\ LET w == Sequential_index(World, n, layer, start, end)
       IN  Called("index", n, <<layer, start, end>>, w,
                  IF w.exc = "none" THEN w.res ELSE <<>>)
    /\ UNCHANGED <<links, prms, scopes, hashorder>>

\* n.pop(i)
SeqPop(n, i) ==
    /\ Running /\ n \in Live /\ IsSequential(World, n)
    /\ LET w == Sequential_pop(World, n, i)
       IN  Commit(w) /\ Called("pop", n, i, w, IF w.exc = "none" THEN w.res ELSE <<>>)
    /\ UNCHANGED <<scopes, hashorder>>

\* n.clear()
SeqClear(n) ==
    /\ Running /\ n \in Live /\ IsSequential(World, n)
    /\ LET w == Sequential_clear(World, n)
       IN  Commit(w) /\ Called("clear", n, None, w, <<>>)
    /\ UNCHANGED <<scopes, hashorder>>

-----------------------------------------------------------------------------
(* SpecSeq: a Sequential edited through its list interface.                 *)

\* Calls of one run of SpecSeq.
MaxSeqCalls == 3

SeqLayers == {LinkV(2), LinkV(3), LambdaV(1), PlainV(0)}
SeqIndices == {-1, 0, 1}
\* The start and end given to index: none, or a position.
SeqBounds == {<<>>} \cup {<<i>> : i \in SeqIndices}

\* The program starts with Links 2 and 3 and object 1 = Sequential(link2).
InitSeq ==
    /\ LET w0 == Link___init__(Link___init__(EmptyWorld, 2, <<>>), 3, <<>>)
           w == Sequential___init__(w0, 1, <<LinkV(2)>>)
       IN  links = w.L /\ prms = w.P
    /\ scopes = <<>>
    /\ ret = NoCall
    /\ hashorder = OneOrder
    /\ calls = MaxSeqCalls

NextSeq ==
    \/ \E n \in Nodes, layer \in SeqLayers : SeqAppend(n, layer)
    \/ \E n \in Nodes, i \in SeqIndices, layer \in SeqLayers : SeqInsert(n, i, layer)
    \/ \E n \in Nodes, i \in SeqIndices, layer \in SeqLayers : SeqSetItem(n, i, layer)
    \/ \E n \in Nodes, i \in SeqIndices : SeqDelItem(n, i)
    \/ \E n \in Nodes, layer \in SeqLayers : SeqRemove(n, layer)
    \/ \E n \in Nodes, i \in SeqIndices : SeqPop(n, i)
    \/ \E n \in Nodes : SeqClear(n)
    \/ \E n \in Nodes, layer \in SeqLayers, start \in SeqBounds, end \in SeqBounds :
          SeqIndex(n, layer, start, end)

SpecSeq == InitSeq /\ [][NextSeq]_vars

-----------------------------------------------------------------------------
(* Claims about the child list, checked under SpecSeq. *)

\* No Link is twice in the sequence s.
NoRepeat(s) == \A i, j \in 1..Len(s) : (i # j /\ IsLink(s[i])) => s[i] # s[j]

\* The Link entries of a sequence of layers, in order.
RECURSIVE LinkLayers(_)
LinkLayers(s) ==
    IF s = <<>> THEN <<>>
    ELSE IF IsLink(Head(s)) THEN <<Head(s)>> \o LinkLayers(Tail(s))
    ELSE LinkLayers(Tail(s))

\* C2: in every list-structured node (ChainList, Sequential) whose children
\* are distinct objects, the child at position i has name str(i).
C2_ChildNames ==
    \A n \in Live :
       (IsChainList(World, n) /\ NoRepeat(links[n]._clist)) =>
          \A i \in 1..Len(links[n]._clist) :
             IsLink(links[n]._clist[i]) =>
                links[links[n]._clist[i][2]].name = str(i - 1)

\* C3: the child list of a Sequential is exactly the subsequence of its layers
\* that are Links, in the same order.
C3_ChildrenAreLinkLayers ==
    \A n \in Live :
       IsSequential(World, n) => links[n]._clist = LinkLayers(links[n]._layers)

\* The layer list, the child list and the lambda counter of Sequential n in
\* the heap L.
ListState(L, n) == <<L[n]._layers, L[n]._clist, L[n]._n_lambda>>

\* C20: after insert(i, x) at a position 0 <= i <= len(s), each of del s[i],
\* pop(i) and (when x was in no layer before) remove(x) ends normally and
\* leaves the layer list, the child list and the lambda counter as they were
\* before the insert, and pop(i) returns x.
C20_RemoveUndoesInsert ==
    [][(/\ ret'.op = "insert" /\ ret'.exc = "none"
        /\ ret'.arg >= 0 /\ ret'.arg <= Len(links[ret'.node]._layers)) =>
          LET n == ret'.node
              i == ret'.arg
              x == ret'.val
              after == [L |-> links', P |-> prms', exc |-> "none", res |-> NoId,
                        log |-> <<>>]
              deleted == Sequential___delitem__(after, n, i)
              popped == Sequential_pop(after, n, i)
              removed == Sequential_remove(after, n, x)
          IN  /\ deleted.exc = "none"
              /\ ListState(deleted.L, n) = ListState(links, n)
              /\ popped.exc = "none" /\ popped.res = x
              /\ ListState(popped.L, n) = ListState(links, n)
              /\ ~Sequential___contains__(World, n, x) =>
                    /\ removed.exc = "none"
                    /\ ListState(removed.L, n) = ListState(links, n)]_vars


\* The 0-based positions i of the layer list of n with start <= i < end that
\* hold layer, start and end counted as in a slice when negative or absent.
PositionsOf(n, layer, start, end) ==
    LET layers == links[n]._layers
    IN  {i \in SliceBound(layers, start, 0)..(SliceBound(layers, end, Len(layers)) - 1) :
            layers[i + 1] = layer}

\* C34: index(layer, start, end) returns the smallest position of the whole
\* layer list between start and end that holds layer, and raises when there
\* is none.
C34_IndexIsAbsolute ==
    ret.op = "index" =>
       LET found == PositionsOf(ret.node, ret.arg[1], ret.arg[2], ret.arg[3])
       IN  IF found = {} THEN ret.exc # "none"
           ELSE ret.exc = "none" /\ ret.val = Min(found)

\* C29: after clear() the Sequential has no layers and no children, and its
\* lambda counter is 0.
C29_ClearEmpties ==
    (ret.op = "clear" /\ ret.exc = "none") =>
       /\ links[ret.node]._layers = <<>>
       /\ links[ret.node]._clist = <<>>
       /\ links[ret.node]._n_lambda = 0

-----------------------------------------------------------------------------
(* SpecTree: a tree of Link, Chain and ChainList nodes is extended and      *)
(* traversed.                                                               *)

\* Calls of one run of SpecTree.
MaxTreeCalls == 2

TreeNames == {"W", "y"}
TreeModes == {"save", "load"}

\* The program starts with the tree
\*   1 = Chain(x = 2, y = 3),  2 = Link(W = shape, y = None),  3 = ChainList(4),
\*   4 = Link() with a persistent value x,
\* under either iteration order of sets of names.
InitTree ==
    /\ LET w1 == Link___init__(EmptyWorld, 2, << <<"W", TRUE>>, <<"y", FALSE>> >>)
           w2 == Link_add_persistent(Link___init__(w1, 4, <<>>), 4, "x", PlainV(0))
           w3 == ChainList___init__(w2, 3, <<LinkV(4)>>)
           w4 == Chain___init__(w3, 1, << <<"x", LinkV(2)>>, <<"y", LinkV(3)>> >>)
       IN  links = w4.L /\ prms = w4.P
    /\ scopes = <<>>
    /\ ret = NoCall
    /\ hashorder \in HashOrders
    /\ calls = MaxTreeCalls

NextTree ==
    \/ \E n \in Nodes, name \in TreeNames, initialized \in BOOLEAN : AddParam(n, name, initialized)
    \/ \E n \in Nodes, name \in TreeNames : AddPersistent(n, name, PlainV(0))
    \/ \E n \in Nodes, name \in TreeNames, m \in Live : ChainAddLink(n, name, LinkV(m))
    \/ \E n \in Nodes, m \in Live : ChainListAppend(n, LinkV(m))
    \/ \E n \in Nodes, include_uninit \in BOOLEAN : ParamsCall(n, include_uninit)
    \/ \E n \in Nodes, include_uninit \in BOOLEAN : NamedParamsCall(n, include_uninit)
    \/ \E n \in Nodes, skipself \in BOOLEAN : LinksCall(n, skipself)
    \/ \E n \in Nodes, skipself \in BOOLEAN : NamedLinksCall(n, skipself)
    \/ \E n \in Nodes : ChildrenCall(n)
    \/ \E n \in Nodes, mode \in TreeModes : SerializeCall(n, mode)

SpecTree == InitTree /\ [][NextTree]_vars

-----------------------------------------------------------------------------
(* Claims about traversal and serialization, checked under SpecTree. *)

\* The children of node m with their keys: the registered name in a Chain,
\* the decimal position in a ChainList.
ChildEdges(m) ==
    IF links[m].kind = "Chain"
    THEN {<<name, links[m].dict[name][2]>> : name \in links[m]._children}
    ELSE IF links[m].kind \in {"ChainList", "Sequential"}
    THEN {<<str(i - 1), links[m]._clist[i][2]>> : i \in 1..Len(links[m]._clist)}
    ELSE {}

\* The node positions at most depth steps below root: <<keys from root, node>>.
RECURSIVE PositionsWithin(_, _)
PositionsWithin(root, depth) ==
    IF depth = 0 THEN {<< <<>>, root>>}
    ELSE LET prev == PositionsWithin(root, depth - 1)
         IN  prev \cup UNION {{<<Append(pos[1], e[1]), e[2]>> : e \in ChildEdges(pos[2])} :
                              pos \in prev}

\* Every node position of the tree under root.
Positions(root) == PositionsWithin(root, MaxNodes)

\* '/' + key for every key, then '/' + name.
RECURSIVE PathOf(_, _)
PathOf(keys, name) ==
    IF keys = <<>> THEN "/" \o name
    ELSE "/" \o Head(keys) \o PathOf(Tail(keys), name)

\* C8: namedparams() that ran to its end yielded each pair once, and the pairs
\* are exactly (path, parameter) for every registered parameter of every node
\* position below the root, the path being the keys to the node and the name.
C8_NamedParams ==
    (ret.op = "namedparams" /\ ret.arg = TRUE /\ ret.exc = "none") =>
       /\ \A i, j \in 1..Len(ret.val) : i # j => ret.val[i][1] # ret.val[j][1]
       /\ Range(ret.val) =
             UNION {{<<PathOf(pos[1], name), links[pos[2]].dict[name]>> :
                        name \in links[pos[2]]._params} : pos \in Positions(ret.node)}

\* C8 witness: the root Chain yielded the parameters of child x and of the
\* Link inside the ChainList child y.
C8_Witness ==
    /\ ret.op = "namedparams" /\ ret.arg = TRUE /\ ret.exc = "none" /\ ret.node = 1
    /\ {"/x/W", "/x/y", "/y/0/W"} \subseteq {ret.val[i][1] : i \in 1..Len(ret.val)}

\* C9: on an unchanged tree params yields the parameters of namedparams in the
\* same order, links the nodes of namedlinks in the same order, and
\* links(skipself=True) is links() without its first element, the node; a bare
\* Link yields only itself, with path '/', and has no children.
C9_TraversalsAgree ==
    /\ (ret.op = "params" /\ ret.exc = "none") =>
          LET np == namedparams(World, ret.node, ret.arg, RecursionLimit)
          IN  /\ np.exc = "none"
              /\ ret.val = [i \in 1..Len(np.out) |-> np.out[i][2]]
    /\ (ret.op = "links" /\ ret.exc = "none") =>
          LET nl == namedlinks(World, ret.node, ret.arg, RecursionLimit)
              all == links_(World, ret.node, FALSE, RecursionLimit)
          IN  /\ nl.exc = "none"
              /\ ret.val = [i \in 1..Len(nl.out) |-> nl.out[i][2]]
              /\ all.exc = "none" /\ all.out # <<>> /\ all.out[1] = LinkV(ret.node)
              /\ ret.arg => ret.val = Tail(all.out)
    /\ (ret.op \in {"links", "namedlinks", "children"} /\ links[ret.node].kind = "Link") =>
          /\ ret.exc = "none"
          /\ ret.val = IF ret.op = "children" \/ ret.arg THEN <<>>
                       ELSE IF ret.op = "links" THEN <<LinkV(ret.node)>>
                       ELSE << <<"/", LinkV(ret.node)>> >>

\* C9 witness: params on the root Chain yielded its own parameter and those of
\* its descendants.
C9_Witness ==
    /\ ret.op = "params" /\ ret.exc = "none" /\ ret.node = 1
    /\ links[1]._params # {}
    /\ Len(ret.val) = 3

\* The key a serializer call was made under.
LogKey(e) == [scope |-> e.scope, name |-> e.name, kind |-> e.kind]

\* C10: a serialize that ran to its end called the serializer once per own
\* parameter and own persistent value of every node position, with the scope
\* made of the child keys down to that node; the parameter keys are the paths
\* of namedparams(); each persistent attribute holds what the serializer
\* returned for it.
C10_Serialize ==
    [][(ret'.op = "serialize" /\ ret'.exc = "none") =>
        LET log == ret'.val
            pos == Positions(ret'.node)
            np == namedparams(World, ret'.node, TRUE, RecursionLimit)
        IN  /\ \A i, j \in 1..Len(log) : i # j => LogKey(log[i]) # LogKey(log[j])
            /\ {LogKey(e) : e \in Range(log)} =
                  UNION {{[scope |-> p[1], name |-> nm, kind |-> "param"] :
                             nm \in links[p[2]]._params}
                         \cup {[scope |-> p[1], name |-> nm, kind |-> "persistent"] :
                                  nm \in links[p[2]]._persistent} : p \in pos}
            /\ {PathOf(e.scope, e.name) : e \in {x \in Range(log) : x.kind = "param"}}
                  = {np.out[i][1] : i \in 1..Len(np.out)}
            /\ \A p \in pos : \A nm \in links[p[2]]._persistent :
                  \E e \in Range(log) :
                     /\ LogKey(e) = [scope |-> p[1], name |-> nm, kind |-> "persistent"]
                     /\ links'[p[2]].dict[nm] = e.out]_vars

\* C10 witness: loading into the root Chain restored the persistent value of
\* the Link in the ChainList child and gave the empty parameter y its array.
C10_Witness ==
    /\ ret.op = "serialize" /\ ret.arg = "load" /\ ret.exc = "none" /\ ret.node = 1
    /\ links[4].dict["x"] = PlainV(1)
    /\ \E i \in 1..Len(ret.val) :
          LogKey(ret.val[i]) = [scope |-> <<"y", "0">>, name |-> "x", kind |-> "persistent"]
    /\ \A q \in LiveParams : prms[q].data # NoId

-----------------------------------------------------------------------------
(* The operators of Sequential, one action per call. *)

\* What a call that ended as w returned: the object in res, if it returned.
Returned(w) == IF w.exc = "none" THEN w.res ELSE NoId

\* n + other
SeqAdd(n, other) ==
    /\ Running /\ n \in Live /\ IsSequential(World, n)
    /\ LET w == Sequential___add__(World, n, other)
       IN  Representable(w) /\ Commit(w) /\ Called("__add__", n, other, w, Returned(w))
    /\ UNCHANGED <<scopes, hashorder>>

\* other + n, other no Sequential
SeqRAdd(n, other) ==
    /\ Running /\ n \in Live /\ IsSequential(World, n)
    /\ ~(IsLink(other) /\ IsSequential(World, other[2]))
    /\ LET w == Sequential___radd__(World, n, other)
       IN  Representable(w) /\ Commit(w) /\ Called("__radd__", n, other, w, Returned(w))
    /\ UNCHANGED <<scopes, hashorder>>

\* n += other
\* n.extend(sequential)
SeqExtend(n, sequential) ==
    /\ Running /\ n \in Live /\ IsSequential(World, n)
    /\ LET w == Sequential_extend(World, n, sequential)
       IN  Representable(w) /\ Commit(w) /\ Called("extend", n, sequential, w, <<>>)
    /\ UNCHANGED <<scopes, hashorder>>

SeqIAdd(n, other) ==
    /\ Running /\ n \in Live /\ IsSequential(World, n)
    /\ LET w == Sequential___iadd__(World, n, other)
       IN  Representable(w) /\ Commit(w) /\ Called("__iadd__", n, other, w, Returned(w))
    /\ UNCHANGED <<scopes, hashorder>>

\* n * n_repeat
SeqMul(n, n_repeat) ==
    /\ Running /\ n \in Live /\ IsSequential(World, n)
    /\ LET w == Sequential___mul__(World, n, n_repeat)
       IN  Representable(w) /\ Commit(w) /\ Called("__mul__", n, n_repeat, w, Returned(w))
    /\ UNCHANGED <<scopes, hashorder>>

\* n_repeat * n
SeqRMul(n, n_repeat) ==
    /\ Running /\ n \in Live /\ IsSequential(World, n)
    /\ LET w == Sequential___rmul__(World, n, n_repeat)
       IN  Representable(w) /\ Commit(w) /\ Called("__rmul__", n, n_repeat, w, Returned(w))
    /\ UNCHANGED <<scopes, hashorder>>

\* n *= n_repeat
SeqIMul(n, n_repeat) ==
    /\ Running /\ n \in Live /\ IsSequential(World, n)
    /\ LET w == Sequential___imul__(World, n, n_repeat)
       IN  Representable(w) /\ Commit(w) /\ Called("__imul__", n, n_repeat, w, Returned(w))
    /\ UNCHANGED <<scopes, hashorder>>

\* n.__reduce__(), the first step of pickle.dumps(n)
SeqReduce(n) ==
    /\ Running /\ n \in Live /\ IsSequential(World, n)
    /\ LET w == Sequential___reduce__(World, n)
       IN  Commit(w) /\ Called("__reduce__", n, None, w, <<>>)
    /\ UNCHANGED <<scopes, hashorder>>

\* n(*args)
SeqCall(n, args) ==
    /\ Running /\ n \in Live /\ IsSequential(World, n)
    /\ LET w == Sequential___call__(World, n, args)
       IN  /\ Representable(w) /\ UNCHANGED <<links, prms>>
           /\ Called("__call__", n, args, w, IF w.exc = "none" THEN w.res ELSE <<>>)
    /\ UNCHANGED <<scopes, hashorder>>

-----------------------------------------------------------------------------
(* SpecOps: a Sequential of a Link and a lambda is combined, repeated,      *)
(* copied and serialized.                                                   *)

\* How many calls the program makes.
MaxOpsCalls == 2

OpsOperands == {LinkV(1), LinkV(2), LinkV(3), LambdaV(1), FuncV(1), PlainV(0)}
\* The operands the program holds in the current state.
OpsHeld == {v \in OpsOperands : IsLink(v) => v[2] \in Live}
OpsRepeats == {0, 1, 2}

\* The program starts with 1 = Sequential(2, lambda), 2 = Link(W = shape).
InitOps ==
    /\ LET w1 == Link___init__(EmptyWorld, 2, << <<"W", TRUE>> >>)
           w2 == Sequential___init__(w1, 1, <<LinkV(2), LambdaV(1)>>)
       IN  links = w2.L /\ prms = w2.P
    /\ scopes = <<>>
    /\ ret = NoCall
    /\ hashorder = OneOrder
    /\ calls = MaxOpsCalls

NextOps ==
    \/ \E n \in Nodes, other \in OpsHeld : SeqAdd(n, other)
    \/ \E n \in Nodes, other \in OpsHeld : SeqRAdd(n, other)
    \/ \E n \in Nodes, other \in OpsHeld : SeqIAdd(n, other)
    \/ \E n \in Nodes, sequential \in OpsHeld : SeqExtend(n, sequential)
    \/ \E n \in Nodes, n_repeat \in OpsRepeats : SeqMul(n, n_repeat)
    \/ \E n \in Nodes, n_repeat \in OpsRepeats : SeqRMul(n, n_repeat)
    \/ \E n \in Nodes, n_repeat \in OpsRepeats : SeqIMul(n, n_repeat)
    \/ \E n \in Nodes : SeqReduce(n)
    \/ \E n \in Nodes, mode \in TreeModes : SerializeCall(n, mode)
    \/ \E n \in Nodes : Copy(n)
    \/ \E n \in Nodes : AddParam(n, "x", TRUE)
    \/ \E n \in Nodes, i \in SeqIndices : SeqDelItem(n, i)

SpecOps == InitOps /\ [][NextOps]_vars

-----------------------------------------------------------------------------
(* Claims about copies and the operators of Sequential, checked under       *)
(* SpecOps.                                                                 *)

\* The heap a step leaves, as a world.
WorldAfter == [L |-> links', P |-> prms', exc |-> "none", res |-> NoId, log |-> <<>>]

\* What namedlinks() and namedparams(include_uninit=True) yield below root n
\* in world w: pairs <<path, object>>.
LinksBelow(w, n) == Range(namedlinks(w, n, FALSE, RecursionLimit).out)
ParamsBelow(w, n) == Range(namedparams(w, n, TRUE, RecursionLimit).out)

\* In heap L every child of object m is named by its key or its index.
ChildrenNamed(L, m) ==
    /\ L[m].kind = "Chain" =>
          \A name \in L[m]._children : L[L[m].dict[name][2]].name = name
    /\ L[m].kind \in {"ChainList", "Sequential"} =>
          \A i \in 1..Len(L[m]._clist) : L[L[m]._clist[i][2]].name = str(i - 1)

\* C11: copy() of a Chain, ChainList or Sequential that returned gives a tree
\* with the paths of the original for links and for parameters, equal paths
\* leading to objects of the same class with the same registered names; no
\* object of the copy is an object of the original, the children of the copy
\* are named by key or index, its root has no name, and no object that
\* existed before has changed.
C11_CopiesHierarchy ==
    [][(ret'.op = "copy" /\ ret'.exc = "none" /\ links[ret'.node].kind # "Link") =>
          LET n == ret'.node
              c == ret'.val
              lo == LinksBelow(WorldAfter, n)
              lc == LinksBelow(WorldAfter, c)
              po == ParamsBelow(WorldAfter, n)
              pc == ParamsBelow(WorldAfter, c)
          IN  /\ {e[1] : e \in lc} = {e[1] : e \in lo}
              /\ {e[1] : e \in pc} = {e[1] : e \in po}
              /\ \A e \in lo, f \in lc :
                    /\ e[2] # f[2]
                    /\ e[1] = f[1] =>
                          /\ links'[f[2][2]].kind = links'[e[2][2]].kind
                          /\ links'[f[2][2]]._params = links'[e[2][2]]._params
                          /\ links'[f[2][2]]._persistent = links'[e[2][2]]._persistent
              /\ \A e \in po, f \in pc : e[2] # f[2]
              /\ \A f \in lc : ChildrenNamed(links', f[2][2])
              /\ links'[c].name = None
              /\ \A m \in Live : links'[m] = links[m]]_vars

\* C17: serialize() and __reduce__() of a Sequential with a lambda among its
\* layers end with an error.
C17_LambdaFails ==
    (/\ ret.op \in {"serialize", "__reduce__"}
     /\ links[ret.node].kind = "Sequential"
     /\ \E i \in 1..Len(links[ret.node]._layers) : is_lambda(links[ret.node]._layers[i]))
       => ret.exc # "none"

\* The Parameter objects that object m holds in heap L.
HeldParams(L, m) == {L[m].dict[name][2] : name \in {a \in Names : IsParam(L[m].dict[a])}}

\* C18: s * n, n * s and s *= n with n >= 1 return a Sequential of n * len(s)
\* layers; two Link layers at different positions are different objects that
\* hold no common Parameter object and no Parameter objects on the same data
\* array.
C18_RepeatIndependent ==
    [][(ret'.op \in {"__mul__", "__rmul__", "__imul__"} /\ ret'.arg >= 1) =>
          /\ ret'.exc = "none"
          /\ LET r == ret'.val
                 layers == links'[r]._layers
             IN  /\ Len(layers) = ret'.arg * Len(links[ret'.node]._layers)
                 /\ \A i, j \in 1..Len(layers) :
                       (i # j /\ IsLink(layers[i]) /\ IsLink(layers[j])) =>
                          /\ layers[i] # layers[j]
                          /\ \A p \in HeldParams(links', layers[i][2]),
                                q \in HeldParams(links', layers[j][2]) :
                                /\ p # q
                                /\ prms'[p].data # NoId => prms'[p].data # prms'[q].data]_vars

\* The names of the children of Sequential n in heap L, in child order.
ChildNames(L, n) == [i \in 1..Len(L[n]._clist) |-> L[L[n]._clist[i][2]].name]

\* The layers of an operand: of a Sequential its layers, else the callable.
OperandLayers(L, v) ==
    IF IsLink(v) /\ L[v[2]].kind = "Sequential" THEN L[v[2]]._layers ELSE <<v>>

\* C19: s + t, c + s and s * n that returned gave a new Sequential, other than
\* the operands, with the layers of the operands in order (n * len(s) layers
\* for s * n), and every Sequential that existed before has its layers, its
\* children, its lambda counter and the names of its children as before.
C19_OperatorsBuildNew ==
    [][(ret'.op \in {"__add__", "__radd__", "__mul__"} /\ ret'.exc = "none") =>
          LET n == ret'.node
              r == ret'.val
          IN  /\ r # n /\ LinkV(r) # ret'.arg
              /\ links[r].kind = "free" /\ links'[r].kind = "Sequential"
              /\ ret'.op = "__add__" =>
                    links'[r]._layers = links[n]._layers \o OperandLayers(links, ret'.arg)
              /\ ret'.op = "__radd__" =>
                    links'[r]._layers = OperandLayers(links, ret'.arg) \o links[n]._layers
              /\ ret'.op = "__mul__" =>
                    Len(links'[r]._layers) =
                       (IF ret'.arg <= 0 THEN 0 ELSE ret'.arg) * Len(links[n]._layers)
              /\ \A m \in Live :
                    links[m].kind = "Sequential" =>
                       /\ ListState(links', m) = ListState(links, m)
                       /\ ChildNames(links', m) = ChildNames(links, m)]_vars


\* How many of the layers are lambdas.
LambdaCount(layers) == Cardinality({i \in 1..Len(layers) : is_lambda(layers[i])})

\* C27: the lambda counter of every Sequential is the number of lambdas among
\* its layers, and __reduce__ raises exactly when there is one.
C27_CounterCounts ==
    /\ \A n \in Live :
          links[n].kind = "Sequential" =>
              links[n]._n_lambda = LambdaCount(links[n]._layers)
    /\ ret.op = "__reduce__" =>
          (ret.exc # "none" <=> LambdaCount(links[ret.node]._layers) > 0)

\* The kinds of the layers, position by position.
LayerKinds(layers) == [i \in 1..Len(layers) |-> layers[i][1]]

\* C28: s *= n raises nothing and leaves s with layers of the kinds that the
\* layers of s * n have, s * n being taken on the state before the call
\* (where the heap has room for it).
C28_InPlaceAgrees ==
    [][ret'.op = "__imul__" =>
          LET n == ret'.node
              product == Sequential___mul__(World, n, ret'.arg)
          IN  (Representable(product) /\ product.exc = "none") =>
                 /\ ret'.exc = "none"
                 /\ LayerKinds(links'[n]._layers) =
                       LayerKinds(product.L[product.res]._layers)]_vars

-----------------------------------------------------------------------------
(* SpecDev: a tree is moved between the host and the devices while          *)
(* attributes are registered and overwritten.                               *)

\* How many calls the program makes.
MaxDevCalls == 3

DevNames == {"W", "x"}
DevNewNames == {"W", "y"}
DevTargets == {<<>>, <<0>>, <<1>>}
DevValues == {PlainV(0), ParamV(1)}

\* The program starts with the tree
\*   1 = Chain(y = 2),  2 = ChainList(3),  3 = Link(W = shape, x = shape),
\* every object on the host.
InitDev ==
    /\ LET w1 == Link___init__(EmptyWorld, 3, << <<"W", TRUE>>, <<"x", TRUE>> >>)
           w2 == ChainList___init__(w1, 2, <<LinkV(3)>>)
           w3 == Chain___init__(w2, 1, << <<"y", LinkV(2)>> >>)
       IN  links = w3.L /\ prms = w3.P
    /\ scopes = <<>>
    /\ ret = NoCall
    /\ hashorder = OneOrder
    /\ calls = MaxDevCalls

NextDev ==
    \/ \E n \in Nodes, device \in DevTargets : ToGpu(n, device)
    \/ \E n \in Nodes : ToCpu(n)
    \/ \E n \in Nodes : EnterInitScope(n)
    \/ ExitInitScope(FALSE)
    \/ \E n \in Nodes, name \in DevNames, value \in DevValues : SetAttr(n, name, value)
    \/ \E n \in Nodes, name \in DevNewNames : AddParam(n, name, TRUE)
    \/ \E n \in Nodes, name \in DevNewNames : AddPersistent(n, name, ArrayV(Host))
    \/ \E n \in Nodes : RegisterPersistent(n, "W")

SpecDev == InitDev /\ [][NextDev]_vars

-----------------------------------------------------------------------------
(* Claims about device transfer, checked under SpecDev. *)

\* The Link objects that are children of object m.
LinkChildren(m) ==
    IF links[m].kind = "Chain"
    THEN {links[m].dict[name][2] :
             name \in {c \in links[m]._children : IsLink(links[m].dict[c])}}
    ELSE IF links[m].kind \in {"ChainList", "Sequential"}
    THEN {v[2] : v \in {c \in Range(links[m]._clist) : IsLink(c)}}
    ELSE {}

\* The objects at most depth child steps below root, root included.
RECURSIVE SubtreeWithin(_, _)
SubtreeWithin(root, depth) ==
    IF depth = 0 THEN {root}
    ELSE LET prev == SubtreeWithin(root, depth - 1)
         IN  prev \cup UNION {LinkChildren(m) : m \in prev}

Subtree(root) == SubtreeWithin(root, MaxNodes)

\* Where the device state of object n says its values are.
DeviceOf(n) == IF links[n]._cpu THEN Host ELSE links[n]._device_id

\* C13: after to_cpu() returned normally every object of the subtree is on the
\* host, and after to_gpu(device) returned normally every object of the
\* subtree is on the target device.
C13_SubtreeUniform ==
    /\ (ret.op = "to_cpu" /\ ret.exc = "none") =>
          \A m \in Subtree(ret.node) : DeviceOf(m) = Host
    /\ (ret.op = "to_gpu" /\ ret.exc = "none") =>
          \A m \in Subtree(ret.node) : DeviceOf(m) = get_device(ret.arg, DefaultDevice)

\* C14: every registered parameter and every registered array of an object is
\* where the device state of the object says.
C14_Resident ==
    \A n \in Live :
       /\ \A name \in links[n]._params :
             IsParam(links[n].dict[name]) =>
                 prms[links[n].dict[name][2]].device = DeviceOf(n)
       /\ \A name \in links[n]._persistent :
             IsArray(links[n].dict[name]) => links[n].dict[name][2] = DeviceOf(n)

\* C15: to_cpu() called again right after a to_cpu() that returned normally on
\* the same object changes no object and no parameter and raises nothing, and
\* so does to_gpu(d) called again right after a to_gpu(d) that returned
\* normally.
C15_SecondIsNoOp ==
    [][/\ (/\ ret.op = "to_cpu" /\ ret.exc = "none"
           /\ ret'.op = "to_cpu" /\ ret'.node = ret.node) =>
              links' = links /\ prms' = prms /\ ret'.exc = "none"
       /\ (/\ ret.op = "to_gpu" /\ ret.exc = "none"
           /\ ret'.op = "to_gpu" /\ ret'.node = ret.node /\ ret'.arg = ret.arg) =>
              links' = links /\ prms' = prms /\ ret'.exc = "none"]_vars

\* C15 witness: the Chain was moved to device 1 with its subtree, and
\* to_gpu(1) was called on it again with one call left.
C15_Witness ==
    /\ ret.op = "to_gpu" /\ ret.node = 1 /\ ret.arg = <<1>> /\ ret.exc = "none"
    /\ calls = MaxDevCalls - 2
    /\ \A m \in Subtree(1) : DeviceOf(m) = 1
    /\ \A p \in LiveParams : prms[p].device = 1

\* The registered parameters and arrays of object n in heap L, P are on dev.
OwnValuesOn(L, P, n, dev) ==
    /\ \A name \in L[n]._params : P[L[n].dict[name][2]].device = dev
    /\ \A name \in L[n]._persistent :
          IsArray(L[n].dict[name]) => L[n].dict[name][2] = dev

\* C16: a to_cpu() or to_gpu() on a plain Link that raised left the device
\* state of the Link as it was, and one that changed the device state moved
\* every registered parameter and array of the Link.
C16_StateLast ==
    [][(ret'.op \in {"to_cpu", "to_gpu"} /\ links[ret'.node].kind = "Link") =>
          LET n == ret'.node
              changed == \/ links'[n]._cpu # links[n]._cpu
                         \/ links'[n]._device_id # links[n]._device_id
          IN  /\ ret'.exc # "none" => ~changed
              /\ changed =>
                    OwnValuesOn(links', prms', n,
                                IF links'[n]._cpu THEN Host ELSE links'[n]._device_id)]_vars

\* C16 witness: to_gpu on Link 3 raised after it had moved one of the two
\* parameters, and the Link still says it is on the host.
C16_Witness ==
    /\ ret.op = "to_gpu" /\ ret.node = 3 /\ ret.exc = "AttributeError"
    /\ links[3].kind = "Link" /\ links[3]._cpu /\ links[3]._device_id = Host
    /\ \E name \in links[3]._params :
          /\ IsParam(links[3].dict[name])
          /\ prms[links[3].dict[name][2]].device # Host

-----------------------------------------------------------------------------
(* Claims about deletion and about the shape of the hierarchy, checked      *)
(* under Spec.                                                              *)

\* C24: del n.name ends normally and leaves the name in none of the
\* registries of n, and when n held no attribute of that name the heap is as
\* it was.
C24_DeleteIdempotent ==
    [][ret'.op = "__delattr__" =>
          LET n == ret'.node
              name == ret'.arg
          IN  /\ ret'.exc = "none"
              /\ name \notin links'[n]._params \cup links'[n]._persistent
                                \cup links'[n]._children
              /\ links[n].dict[name] = Absent => links' = links /\ prms' = prms]_vars

\* The objects below object n: its children and all below them.
Descendants(n) == UNION {Subtree(c) : c \in LinkChildren(n)}

\* C26: no object is below itself.
C26_NoCycle == \A n \in Live : n \notin Descendants(n)

\* C31: every name in _params is an attribute that holds a Parameter, every
\* name in _persistent is an attribute, and every name in the _children of a
\* Chain is an attribute that holds a Link.
C31_RegistriesNameLive ==
    \A n \in Live :
       /\ \A name \in links[n]._params : IsParam(links[n].dict[name])
       /\ \A name \in links[n]._persistent : links[n].dict[name] # Absent
       /\ links[n].kind = "Chain" =>
             \A name \in links[n]._children : IsLink(links[n].dict[name])

\* C32: in a Chain no name is in two of _children, _params and _persistent.
C32_ChainRegistriesDisjoint ==
    \A n \in Live :
       links[n].kind = "Chain" =>
          /\ links[n]._children \cap links[n]._params = {}
          /\ links[n]._children \cap links[n]._persistent = {}
          /\ links[n]._params \cap links[n]._persistent = {}

-----------------------------------------------------------------------------
(* SpecCall: a Sequential of functions is built and called.                 *)

\* How many layers the constructor is given, and how many calls follow.
MaxLayers == 3
MaxCallCalls == 2

CallLayers == {FuncV(1), FuncV(2), LambdaV(1), LambdaV(2)}
CallInputs == {IntV(k) : k \in 0..(ValueMod - 1)} \cup {TupleV(<<IntV(0), IntV(1)>>)}
CallArgs == {<<x>> : x \in CallInputs} \cup {<<IntV(1), IntV(2 % ValueMod)>>}

\* The sequences of at most k layers.
RECURSIVE LayerSeqs(_)
LayerSeqs(k) ==
    IF k = 0 THEN {<<>>}
    ELSE LayerSeqs(k - 1) \cup
         {Append(ls, f) : ls \in {t \in LayerSeqs(k - 1) : Len(t) = k - 1}, f \in CallLayers}

\* The program starts with 1 = Sequential(*layers).
InitCall ==
    /\ \E layers \in LayerSeqs(MaxLayers) :
          LET w == Sequential___init__(EmptyWorld, 1, layers)
          IN  links = w.L /\ prms = w.P
    /\ scopes = <<>>
    /\ ret = NoCall
    /\ hashorder = OneOrder
    /\ calls = MaxCallCalls

NextCall ==
    \/ \E n \in Nodes, args \in CallArgs : SeqCall(n, args)
    \/ \E n \in Nodes, layer \in CallLayers : SeqAppend(n, layer)

SpecCall == InitCall /\ [][NextCall]_vars

-----------------------------------------------------------------------------
(* The claim about the forward pass, checked under SpecCall. *)

\* g(y) for a value y that is no tuple, g(*y) for a tuple y; an exception
\* raised before g is reached goes through.
Feed(g, r) ==
    IF r.exc # "none" THEN r
    ELSE LET w == call_layer([World EXCEPT !.exc = "none"], g,
                             IF IsTuple(r.val) THEN r.val[2] ELSE <<r.val>>)
         IN  [exc |-> w.exc, val |-> IF w.exc = "none" THEN w.res ELSE <<>>]

\* The composition of the layers, first layer innermost, applied to x.
RECURSIVE Pipeline(_, _)
Pipeline(layers, x) ==
    IF Len(layers) = 1
    THEN LET w == call_layer(World, layers[1], <<x>>)
         IN  [exc |-> w.exc, val |-> IF w.exc = "none" THEN w.res ELSE <<>>]
    ELSE Feed(layers[Len(layers)], Pipeline(SubSeq(layers, 1, Len(layers) - 1), x))

\* C21: a Sequential of at least one layer called with one argument x returns
\* what the composition of its layers returns for x, first layer first, a
\* tuple result being unpacked into the arguments of the next layer, and it
\* raises what the composition raises.
C21_Pipeline ==
    (/\ ret.op = "__call__" /\ Len(ret.arg) = 1
     /\ links[ret.node]._layers # <<>>) =>
       [exc |-> ret.exc, val |-> ret.val] = Pipeline(links[ret.node]._layers, ret.arg[1])

\* C21 witness: Sequential(pair, lambda a, b: (b, a), lambda a, b: a + b)
\* called with 1 returned 2 + 1 modulo ValueMod.
C21_Witness ==
    /\ ret.op = "__call__" /\ ret.exc = "none" /\ ret.arg = <<IntV(1)>>
    /\ links[ret.node]._layers = <<FuncV(2), LambdaV(2), LambdaV(1)>>
    /\ ret.val = IntV((1 + ((1 + 1) % ValueMod)) % ValueMod)

-----------------------------------------------------------------------------
(* Operations that walk two hierarchies side by side, and the switches of    *)
(* the update rules.                                                         *)

\* link.__dict__ exists: for a Link, a Parameter and a function object.
has_dict(link) == link[1] \in {"Link", "Parameter", "lambda", "function"}

\* link.__dict__[name], Absent for a missing key: only a Link holds the names
\* of a model.
dict_item(w, link, name) ==
    IF IsLink(link) THEN w.L[link[2]].dict[name] ELSE Absent

\* Chain.__getitem__: getattr with the key, which has to be a string.
Chain___getitem__(w, n, name) ==
    IF name \notin Names THEN [exc |-> "TypeError", val |-> Absent]
    ELSE IF ~hasattr(w, n, name) THEN [exc |-> "AttributeError", val |-> Absent]
    ELSE IF ~indict(w, n, name) THEN [exc |-> "Unmodelled", val |-> Absent]
    ELSE [exc |-> "none", val |-> w.L[n].dict[name]]

\* ChainList.__getitem__
ChainList___getitem__(w, n, index) ==
    IF ListPos(w.L[n]._clist, index) = -1 THEN [exc |-> "IndexError", val |-> Absent]
    ELSE [exc |-> "none", val |-> w.L[n]._clist[ListPos(w.L[n]._clist, index) + 1]]

\* Sequential.__getitem__
Sequential___getitem__(w, n, i) ==
    IF ListPos(w.L[n]._layers, i) = -1 THEN [exc |-> "IndexError", val |-> Absent]
    ELSE [exc |-> "none", val |-> w.L[n]._layers[ListPos(w.L[n]._layers, i) + 1]]

\* link[idx], by the class of link; a plain Link and a function object cannot
\* be subscripted.
getitem(w, link, idx) ==
    IF IsParam(link) THEN [exc |-> "Unmodelled", val |-> Absent]
    ELSE IF ~IsLink(link) THEN [exc |-> "TypeError", val |-> Absent]
    ELSE IF IsSequential(w, link[2]) THEN Sequential___getitem__(w, link[2], idx)
    ELSE IF IsChainList(w, link[2]) THEN ChainList___getitem__(w, link[2], idx)
    ELSE IF IsChain(w, link[2]) THEN Chain___getitem__(w, link[2], idx)
    ELSE [exc |-> "TypeError", val |-> Absent]

\* The loop of Link.copyparams over the names of _params, in set order:
\* dst[name], then its copydata attribute, then src[name], then the call.
RECURSIVE Link_copyparams_loop(_, _, _, _)
Link_copyparams_loop(w, n, link, names) ==
    IF names = <<>> THEN w
    ELSE LET d == w.L[n].dict[Head(names)]
             s == dict_item(w, link, Head(names))
             w1 == IF d = Absent THEN Raise(w, "KeyError")
                   ELSE IF ~IsParam(d) THEN Raise(w, "AttributeError")
                   ELSE IF s = Absent THEN Raise(w, "KeyError")
                   ELSE IF ~IsParam(s) THEN Raise(w, "Unmodelled")
                   ELSE Parameter_copydata(w, d[2], s[2])
         IN  IF w1.exc # "none" THEN w1
             ELSE Link_copyparams_loop(w1, n, link, Tail(names))

\* Link.copyparams
Link_copyparams(w, n, link) ==
    IF ~has_dict(link) THEN Raise(w, "AttributeError")
    ELSE Link_copyparams_loop(w, n, link, SetOrder(w.L[n]._params))

RECURSIVE copyparams(_, _, _, _)

\* The loop of Chain.copyparams over the names of _children, in set order.
RECURSIVE Chain_copyparams_loop(_, _, _, _, _)
Chain_copyparams_loop(w, n, link, names, fuel) ==
    IF names = <<>> THEN w
    ELSE LET d == w.L[n].dict[Head(names)]
             s == dict_item(w, link, Head(names))
             w1 == IF d = Absent THEN Raise(w, "KeyError")
                   ELSE IF ~IsLink(d) THEN Raise(w, "AttributeError")
                   ELSE IF s = Absent THEN Raise(w, "KeyError")
                   ELSE copyparams(w, d[2], s, fuel - 1)
         IN  IF w1.exc # "none" THEN w1
             ELSE Chain_copyparams_loop(w1, n, link, Tail(names), fuel)

\* Mutant of Chain.copyparams: the children are not visited.
Chain_copyparams_own(w, n, link, fuel) == Link_copyparams(w, n, link)

\* Chain.copyparams
Chain_copyparams(w, n, link, fuel) ==
    LET w1 == Link_copyparams(w, n, link)
    IN  IF w1.exc # "none" THEN w1
        ELSE Chain_copyparams_loop(w1, n, link, SetOrder(w.L[n]._children), fuel)

\* The loop of ChainList.copyparams over _children, idx the 0-based position:
\* the copyparams attribute of the child, then link[idx], then the call.
RECURSIVE ChainList_copyparams_loop(_, _, _, _, _)
ChainList_copyparams_loop(w, n, link, idx, fuel) ==
    IF idx >= Len(w.L[n]._clist) THEN w
    ELSE LET child == w.L[n]._clist[idx + 1]
             item == getitem(w, link, idx)
             w1 == IF ~IsLink(child) THEN Raise(w, "AttributeError")
                   ELSE IF item.exc # "none" THEN Raise(w, item.exc)
                   ELSE copyparams(w, child[2], item.val, fuel - 1)
         IN  IF w1.exc # "none" THEN w1
             ELSE ChainList_copyparams_loop(w1, n, link, idx + 1, fuel)

\* ChainList.copyparams, which Sequential inherits.
ChainList_copyparams(w, n, link, fuel) ==
    LET w1 == Link_copyparams(w, n, link)
    IN  IF w1.exc # "none" THEN w1
        ELSE ChainList_copyparams_loop(w1, n, link, 0, fuel)

\* n.copyparams(link), by the class of n.
copyparams(w, n, link, fuel) ==
    IF fuel = 0 THEN Raise(w, "RecursionError")
    ELSE IF IsChain(w, n) THEN Chain_copyparams(w, n, link, fuel)
    ELSE IF IsChainList(w, n) THEN ChainList_copyparams(w, n, link, fuel)
    ELSE Link_copyparams(w, n, link)

\* The loop of Link.addgrads over the names of _params, in set order:
\* dst[name], then its addgrad attribute, then src[name], then the call.
RECURSIVE Link_addgrads_loop(_, _, _, _)
Link_addgrads_loop(w, n, link, names) ==
    IF names = <<>> THEN w
    ELSE LET d == w.L[n].dict[Head(names)]
             s == dict_item(w, link, Head(names))
             w1 == IF d = Absent THEN Raise(w, "KeyError")
                   ELSE IF ~IsParam(d) THEN Raise(w, "AttributeError")
                   ELSE IF s = Absent THEN Raise(w, "KeyError")
                   ELSE IF ~IsParam(s) THEN Raise(w, "Unmodelled")
                   ELSE Parameter_addgrad(w, d[2], s[2])
         IN  IF w1.exc # "none" THEN w1
             ELSE Link_addgrads_loop(w1, n, link, Tail(names))

\* Link.addgrads
Link_addgrads(w, n, link) ==
    IF ~has_dict(link) THEN Raise(w, "AttributeError")
    ELSE Link_addgrads_loop(w, n, link, SetOrder(w.L[n]._params))

RECURSIVE addgrads(_, _, _, _)

\* The loop of Chain.addgrads over the names of _children, in set order.
RECURSIVE Chain_addgrads_loop(_, _, _, _, _)
Chain_addgrads_loop(w, n, link, names, fuel) ==
    IF names = <<>> THEN w
    ELSE LET d == w.L[n].dict[Head(names)]
             s == dict_item(w, link, Head(names))
             w1 == IF d = Absent THEN Raise(w, "KeyError")
                   ELSE IF ~IsLink(d) THEN Raise(w, "AttributeError")
                   ELSE IF s = Absent THEN Raise(w, "KeyError")
                   ELSE addgrads(w, d[2], s, fuel - 1)
         IN  IF w1.exc # "none" THEN w1
             ELSE Chain_addgrads_loop(w1, n, link, Tail(names), fuel)

\* Chain.addgrads
Chain_addgrads(w, n, link, fuel) ==
    LET w1 == Link_addgrads(w, n, link)
    IN  IF w1.exc # "none" THEN w1
        ELSE Chain_addgrads_loop(w1, n, link, SetOrder(w.L[n]._children), fuel)

\* The loop of ChainList.addgrads over _children, idx the 0-based position:
\* the addgrads attribute of the child, then link[idx], then the call.
RECURSIVE ChainList_addgrads_loop(_, _, _, _, _)
ChainList_addgrads_loop(w, n, link, idx, fuel) ==
    IF idx >= Len(w.L[n]._clist) THEN w
    ELSE LET child == w.L[n]._clist[idx + 1]
             item == getitem(w, link, idx)
             w1 == IF ~IsLink(child) THEN Raise(w, "AttributeError")
                   ELSE IF item.exc # "none" THEN Raise(w, item.exc)
                   ELSE addgrads(w, child[2], item.val, fuel - 1)
         IN  IF w1.exc # "none" THEN w1
             ELSE ChainList_addgrads_loop(w1, n, link, idx + 1, fuel)

\* ChainList.addgrads, which Sequential inherits.
ChainList_addgrads(w, n, link, fuel) ==
    LET w1 == Link_addgrads(w, n, link)
    IN  IF w1.exc # "none" THEN w1
        ELSE ChainList_addgrads_loop(w1, n, link, 0, fuel)

\* n.addgrads(link), by the class of n.
addgrads(w, n, link, fuel) ==
    IF fuel = 0 THEN Raise(w, "RecursionError")
    ELSE IF IsChain(w, n) THEN Chain_addgrads(w, n, link, fuel)
    ELSE IF IsChainList(w, n) THEN ChainList_addgrads(w, n, link, fuel)
    ELSE Link_addgrads(w, n, link)

\* The loop of enable_update and disable_update over what self.params()
\* yields; the exception that ends the generator comes after the last item.
RECURSIVE set_enabled(_, _, _)
set_enabled(w, g, flag) ==
    IF g.out = <<>>
    THEN (IF g.exc = "none" THEN w ELSE Raise(w, g.exc))
    ELSE LET v == Head(g.out)
             rest == [g EXCEPT !.out = Tail(g.out)]
         IN  IF ~IsParam(v) THEN Raise(w, "AttributeError")
             ELSE IF w.P[v[2]].state.update_rule = NoId THEN set_enabled(w, rest, flag)
             ELSE set_enabled([w EXCEPT !.P[w.P[v[2]].state.update_rule].state.enabled = flag],
                              rest, flag)

\* Link.enable_update
Link_enable_update(w, n) == set_enabled(w, params(w, n, TRUE, RecursionLimit), TRUE)

\* Mutant of Link.disable_update: only the first parameter is switched.
Link_disable_update_first(w, n) ==
    LET g == params(w, n, TRUE, RecursionLimit)
    IN  set_enabled(w, [g EXCEPT !.out = SubSeq(g.out, 1, 1)], FALSE)

\* Link.disable_update
Link_disable_update(w, n) == set_enabled(w, params(w, n, TRUE, RecursionLimit), FALSE)

\* The answers of a property that is True or False.
BoolV(b) == <<"bool", IF b THEN 1 ELSE 0>>

\* The loop of Link.update_enabled.
RECURSIVE update_enabled_loop(_, _)
update_enabled_loop(w, g) ==
    IF g.out = <<>>
    THEN (IF g.exc = "none" THEN [w EXCEPT !.res = BoolV(FALSE)] ELSE Raise(w, g.exc))
    ELSE LET v == Head(g.out)
         IN  IF ~IsParam(v) THEN Raise(w, "AttributeError")
             ELSE IF w.P[v[2]].state.update_rule # NoId /\ w.P[w.P[v[2]].state.update_rule].state.enabled
             THEN [w EXCEPT !.res = BoolV(TRUE)]
             ELSE update_enabled_loop(w, [g EXCEPT !.out = Tail(g.out)])

\* Link.update_enabled
Link_update_enabled(w, n) == update_enabled_loop(w, params(w, n, TRUE, RecursionLimit))

-----------------------------------------------------------------------------
(* Programs over two hierarchies: SpecPair.                                  *)

\* Calls a program of SpecPair makes.
MaxPairCalls == 2

\* dst.copyparams(link), for a held object link.
CopyParams(n, link) ==
    /\ Running /\ n \in Live /\ link[2] \in Live
    /\ LET w == copyparams(World, n, link, RecursionLimit)
       IN  Representable(w) /\ Commit(w) /\ Called("copyparams", n, link, w, <<>>)
    /\ UNCHANGED <<scopes, hashorder>>

\* dst.addgrads(link), for a held object link.
AddGrads(n, link) ==
    /\ Running /\ n \in Live /\ link[2] \in Live
    /\ LET w == addgrads(World, n, link, RecursionLimit)
       IN  Representable(w) /\ Commit(w) /\ Called("addgrads", n, link, w, <<>>)
    /\ UNCHANGED <<scopes, hashorder>>

\* n.enable_update()
EnableUpdate(n) ==
    /\ Running /\ n \in Live
    /\ LET w == Link_enable_update(World, n)
       IN  Commit(w) /\ Called("enable_update", n, None, w, <<>>)
    /\ UNCHANGED <<scopes, hashorder>>

\* n.disable_update()
DisableUpdate(n) ==
    /\ Running /\ n \in Live
    /\ LET w == Link_disable_update(World, n)
       IN  Commit(w) /\ Called("disable_update", n, None, w, <<>>)
    /\ UNCHANGED <<scopes, hashorder>>

\* n.update_enabled
UpdateEnabled(n) ==
    /\ Running /\ n \in Live
    /\ LET w == Link_update_enabled(World, n)
       IN  Called("update_enabled", n, None, w, IF w.exc = "none" THEN w.res ELSE <<>>)
    /\ UNCHANGED <<links, prms, scopes, hashorder>>

\* p.data[...] = v, for a held initialized Parameter p.
SetData(p, v) ==
    /\ Running /\ p \in LiveParams /\ prms[p].data # NoId
    /\ LET w == Parameter_set_data(World, p, v)
       IN  Commit(w) /\ Called("data", NoId, p, w, <<>>)
    /\ UNCHANGED <<scopes, hashorder>>

\* p.grad = an array that holds v, for a held Parameter p.
SetGrad(p, v) ==
    /\ Running /\ p \in LiveParams /\ prms[p].data # NoId
    /\ LET w == [Parameter_set_grad(World, p) EXCEPT !.P[p].state.gvalue = v]
       IN  Commit(w) /\ Called("grad", NoId, p, w, <<>>)
    /\ UNCHANGED <<scopes, hashorder>>

\* p.update_rule = a new rule, for a held Parameter p.
SetUpdateRule(p, enabled) ==
    /\ Running /\ p \in LiveParams
    /\ LET w == Parameter_set_update_rule(World, p, enabled)
       IN  Commit(w) /\ Called("update_rule", NoId, p, w, <<>>)
    /\ UNCHANGED <<scopes, hashorder>>

\* What a program stores in an array.
PairValues == 0..(ValueMod - 1)
\* What a program tries to register that is neither a Link nor callable, and
\* what is callable without being a Link.
PairObjects == {PlainV(0), LambdaV(1)}

\* The pairs of hierarchies a program of SpecPair starts with: two Chains,
\* two ChainLists and two Sequentials of one child each, a Link that holds
\* one Parameter under two names beside a Link with two Parameters, and a
\* Chain with a parameter of its own beside a Link.
PairShapes ==
    LET leaf(w, n) == Link___init__(w, n, << <<"W", TRUE>> >>)
        first == leaf(EmptyWorld, 2)
        tied == init_scope_exit(
                    setattr(init_scope_enter(leaf(EmptyWorld, 1), 1), 1, "x", ParamV(1)),
                    1, FALSE)
    IN  { Chain___init__(leaf(Chain___init__(first, 1, << <<"x", LinkV(2)>> >>), 4),
                         3, << <<"x", LinkV(4)>> >>),
          ChainList___init__(leaf(ChainList___init__(first, 1, <<LinkV(2)>>), 4),
                             3, <<LinkV(4)>>),
          Sequential___init__(
              leaf(Sequential___init__(first, 1, <<LambdaV(1), LinkV(2)>>), 4),
              3, <<LambdaV(1), LinkV(4)>>),
          Link___init__(tied, 3, << <<"W", TRUE>>, <<"x", TRUE>> >>),
          leaf(Link_add_param(Chain___init__(first, 1, << <<"x", LinkV(2)>> >>),
                              1, "W", TRUE, 2), 3) }

\* Every array starts with a number of its own, and the first Parameter with
\* an update rule that is enabled.
InitPair ==
    /\ \E w \in PairShapes :
          /\ links = w.L
          /\ prms = [p \in Params |->
                        IF ~w.P[p].alive THEN w.P[p]
                        ELSE [w.P[p] EXCEPT !.state.value = p % ValueMod,
                                            !.state.update_rule = IF p = 1 THEN 1 ELSE NoId,
                                            !.state.enabled = (p = 1)]]
    /\ scopes = <<>>
    /\ ret = NoCall
    /\ hashorder = OneOrder
    /\ calls = MaxPairCalls

NextPair ==
    \/ \E n \in Nodes, m \in Nodes : CopyParams(n, LinkV(m))
    \/ \E n \in Nodes, m \in Nodes : AddGrads(n, LinkV(m))
    \/ \E n \in Nodes : EnableUpdate(n)
    \/ \E n \in Nodes : DisableUpdate(n)
    \/ \E n \in Nodes : UpdateEnabled(n)
    \/ \E p \in Params, v \in PairValues : SetData(p, v)
    \/ \E p \in Params, v \in PairValues : SetGrad(p, v)
    \/ \E p \in Params, enabled \in BOOLEAN : SetUpdateRule(p, enabled)
    \/ \E n \in Nodes, name \in {"x", "y"}, link \in PairObjects : ChainAddLink(n, name, link)
    \/ \E n \in Nodes, link \in PairObjects : ChainListAppend(n, link)
    \/ \E n \in Nodes, layer \in PairObjects : SeqAppend(n, layer)
    \/ \E n \in Nodes, layer \in PairObjects : SeqInsert(n, 0, layer)
    \/ \E n \in Nodes, layer \in PairObjects : SeqSetItem(n, 0, layer)

SpecPair == InitPair /\ [][NextPair]_vars

-----------------------------------------------------------------------------
(* Claims about operations on two hierarchies, checked under SpecPair. *)

\* The heap after dst.copyparams(src) or dst.addgrads(src) (op says which)
\* when every Link among layers[k..] of dst meets the layer of src at its
\* own position.
RECURSIVE PairedByLayer(_, _, _, _, _)
PairedByLayer(w, op, dst, src, k) ==
    IF k > Len(dst) \/ w.exc # "none" THEN w
    ELSE IF ~IsLink(dst[k]) THEN PairedByLayer(w, op, dst, src, k + 1)
    ELSE PairedByLayer(IF op = "copyparams"
                       THEN copyparams(w, dst[k][2], src[k], RecursionLimit)
                       ELSE addgrads(w, dst[k][2], src[k], RecursionLimit),
                       op, dst, src, k + 1)

\* Two Sequentials with layers of the same kinds at the same positions, a
\* layer that is no Link among them.
SameLayers(n, m) ==
    /\ IsSequential(World, n) /\ IsSequential(World, m)
    /\ LayerKinds(links[n]._layers) = LayerKinds(links[m]._layers)
    /\ \E k \in 1..Len(links[n]._layers) : ~IsLink(links[n]._layers[k])
    /\ \E k \in 1..Len(links[n]._layers) : IsLink(links[n]._layers[k])

\* C30: on two Sequentials of the same layer structure with a non-Link
\* callable among the layers, dst.copyparams(src) and dst.addgrads(src) end
\* normally and do to the parameters what pairing every Link layer of dst
\* with the layer of src at the same layer position does.
C30_PairsByPosition ==
    [][(/\ ret'.op \in {"copyparams", "addgrads"}
        /\ SameLayers(ret'.node, ret'.arg[2])) =>
          LET paired == PairedByLayer(World, ret'.op, links[ret'.node]._layers,
                                      links[ret'.arg[2]]._layers, 1)
          IN  paired.exc = "none" => (ret'.exc = "none" /\ prms' = paired.P)]_vars

\* C25: a call that registers an object that is no Link as a child of a
\* Chain or of a ChainList, or an object that is not callable as a layer of
\* a Sequential, ends with an exception and leaves the child set, the child
\* list and the layer list of the receiver as they were.
C25_TypeViolationRejected ==
    [][LET n == ret'.node
           v == ret'.val
       IN  (\/ ret'.op = "add_link" /\ ~IsLink(v)
            \/ ret'.op = "append" /\ links[n].kind = "ChainList" /\ ~IsLink(v)
            \/ /\ ret'.op \in {"append", "insert", "__setitem__"}
               /\ links[n].kind = "Sequential" /\ ~callable(v)) =>
              /\ ret'.exc # "none"
              /\ links'[n]._children = links[n]._children
              /\ links'[n]._clist = links[n]._clist
              /\ links'[n]._layers = links[n]._layers]_vars

\* The Parameter objects registered in the objects of the subtree of n.
SubtreeParams(n) ==
    UNION {{links[m].dict[name][2] :
               name \in {a \in links[m]._params : IsParam(links[m].dict[a])}} :
           m \in Subtree(n)}

\* p has an update rule.
HasRule(p) == prms[p].state.update_rule # NoId

\* The update rule of p is enabled.
RuleEnabled(p) == HasRule(p) /\ prms[prms[p].state.update_rule].state.enabled

\* C23: after disable_update() on a node, update_enabled is False on the
\* node and on every descendant; after enable_update() it is True exactly
\* when a parameter of the subtree has an update rule; and update_enabled is
\* never True without a parameter of the subtree whose rule is enabled, so a
\* parameter without a rule does not count.
C23_UpdateSwitch ==
    /\ (ret.op = "disable_update" /\ ret.exc = "none") =>
          \A m \in Subtree(ret.node) :
             Link_update_enabled(World, m) = [World EXCEPT !.res = BoolV(FALSE)]
    /\ (ret.op = "enable_update" /\ ret.exc = "none") =>
          /\ Link_update_enabled(World, ret.node).exc = "none"
          /\ Link_update_enabled(World, ret.node).res = BoolV(TRUE)
                <=> \E p \in SubtreeParams(ret.node) : HasRule(p)
    /\ \A n \in Live :
          (/\ Link_update_enabled(World, n).exc = "none"
           /\ Link_update_enabled(World, n).res = BoolV(TRUE)) =>
             \E p \in SubtreeParams(n) : RuleEnabled(p)

\* disable_update() has returned on a node with a descendant, below which
\* one parameter has an update rule and another has none.
C23_Witness ==
    /\ ret.op = "disable_update" /\ ret.exc = "none"
    /\ Subtree(ret.node) # {ret.node}
    /\ \E p, q \in SubtreeParams(ret.node) : HasRule(p) /\ ~HasRule(q)

\* The (path, Parameter) pairs and the (path, class) pairs of the hierarchy
\* of n, in the order of the traversals.
PathParams(n) == namedparams(World, n, TRUE, RecursionLimit)
PathLinks(n) == namedlinks(World, n, FALSE, RecursionLimit)
PathKinds(n) ==
    [i \in 1..Len(PathLinks(n).out) |->
        <<PathLinks(n).out[i][1], links[PathLinks(n).out[i][2][2]].kind>>]
ParamPaths(n) == [i \in 1..Len(PathParams(n).out) |-> PathParams(n).out[i][1]]

\* The hierarchy of n is a tree of Link, Chain and ChainList objects whose
\* registered names hold initialized Parameters.
IsTree(n) ==
    /\ PathParams(n).exc = "none" /\ PathLinks(n).exc = "none"
    /\ \A i \in 1..Len(PathKinds(n)) : PathKinds(n)[i][2] \in {"Link", "Chain", "ChainList"}
    /\ \A i \in 1..Len(PathParams(n).out) :
          /\ IsParam(PathParams(n).out[i][2])
          /\ prms[PathParams(n).out[i][2][2]].data # NoId

\* Two trees of identical shape: the same classes and the same parameter
\* names at the same paths, and arrays at different paths are different
\* arrays.
SameShape(a, b) ==
    /\ IsTree(a) /\ IsTree(b)
    /\ PathKinds(a) = PathKinds(b)
    /\ ParamPaths(a) = ParamPaths(b)
    /\ \A x, y \in Range(PathParams(a).out) \cup Range(PathParams(b).out) :
          x[1] # y[1] => prms[x[2][2]].data # prms[y[2][2]].data

-----------------------------------------------------------------------------
(* Claims about growing a Sequential by another, checked under SpecOps. *)

\* C33: s.extend(t) and s += t, for a Sequential t (s itself included), end,
\* and s then holds the layers it had followed by the layers t had when the
\* call started, in order.
C33_ExtendTerminates ==
    [][(/\ ret'.op \in {"extend", "__iadd__"}
        /\ IsLink(ret'.arg) /\ IsSequential(World, ret'.arg[2])) =>
          /\ ret'.exc = "none"
          /\ links'[ret'.node]._layers =
                links[ret'.node]._layers \o links[ret'.arg[2]]._layers]_vars

====
